---- MODULE Spec2Model ----
(***************************************************************************)
(* A model of the go-swagger generator: the per-file GinSwagger pass       *)
(* (operation insertion, schema registry, rename pass, operation-id        *)
(* check), the type schema resolver, the struct-field tag parser and the   *)
(* comment generator GetGinComments.                                       *)
(*                                                                         *)
(* Strings the code splits, joins or rewrites are sequences of tokens, so  *)
(* that strings.Split / ReplaceAll / HasPrefix are computed, not assumed.  *)
(***************************************************************************)
EXTENDS Integers, Sequences, FiniteSets, TLC

VARIABLES
    parser,      \* the Parser object (src/parser/parser.go:55)
    pc,          \* position of the driver: "idle", "parsing", "failed"
    nfiles,      \* GinSwagger calls started so far
    ndecls,      \* declarations parsed so far, over all files
    err,         \* the error the last GinSwagger call returned (<<>> for nil)
    debug,       \* the warnings parser.debug.Printf has written
    schemas      \* the schemas the parsed operations hold: [of, s]

vars == <<parser, pc, nfiles, ndecls, err, debug, schemas>>

(***************************************************************************)
(* Bounds of the model.                                                    *)
(***************************************************************************)
MaxFiles == 2
MaxDecls == 3

(***************************************************************************)
(* Generic helpers over token sequences and finite maps.                   *)
(***************************************************************************)
Range(s) == {s[i] : i \in DOMAIN s}

NoMap == <<>>

Put(m, k, v) == (k :> v) @@ m

Del(m, k) == [x \in (DOMAIN m) \ {k} |-> m[x]]

LastIndex(s, tok) ==
    LET hits == {i \in DOMAIN s : s[i] = tok}
    IN  IF hits = {} THEN 0 ELSE CHOOSE i \in hits : \A j \in hits : j <= i

\* the last element of strings.Split(s, tok)
LastPart(s, tok) == SubSeq(s, LastIndex(s, tok) + 1, Len(s))

\* all but the last element of strings.Split(s, tok), still joined, with the
\* separator that precedes the last element
ButLastPart(s, tok) == SubSeq(s, 1, LastIndex(s, tok))

ReplaceAll(s, old, new) == [i \in DOMAIN s |-> IF s[i] = old THEN new ELSE s[i]]

(***************************************************************************)
(* The document: paths and operations.                                     *)
(***************************************************************************)
MethodGet     == "GET"
MethodPost    == "POST"
MethodDelete  == "DELETE"
MethodPut     == "PUT"
MethodPatch   == "PATCH"
MethodHead    == "HEAD"
MethodOptions == "OPTIONS"
MethodTrace   == "TRACE"

Slots == {MethodGet, MethodPost, MethodDelete, MethodPut, MethodPatch,
          MethodHead, MethodOptions}

\* strings.ToUpper on the method strings the inputs use
ToUpper(m) ==
    CASE m = "get"   -> "GET"
      [] m = "post"  -> "POST"
      [] m = "trace" -> "TRACE"
      [] OTHER       -> m

\* a nil *spec.Operation
NoOp == [decl |-> 0, ID |-> ""]

\* spec.PathItem{}
EmptyPathItem == [s \in Slots |-> NoOp]

setRouteMethodOp(pathItem, method, op) ==
    IF ToUpper(method) \in Slots
    THEN [pathItem EXCEPT ![ToUpper(method)] = op]
    ELSE pathItem

\* a variant of hasRouteMethodOp that compares the method as written, without
\* strings.ToUpper; the property of C9 must reject it
hasRouteMethodOp_CaseSensitive(pathItem, method) ==
    IF method \in Slots
    THEN pathItem[method] # NoOp
    ELSE FALSE

hasRouteMethodOp(pathItem, method) ==
    IF ToUpper(method) \in Slots
    THEN pathItem[ToUpper(method)] # NoOp
    ELSE FALSE

\* the order in which getOperationID looks at the slots of a path item
OperationIDOrder ==
    <<MethodGet, MethodPut, MethodPost, MethodDelete, MethodOptions, MethodHead, MethodPatch>>

\* the method names getOperationID reports: PATCH is reported as TRACE
OperationIDMethod(slot) == IF slot = MethodPatch THEN MethodTrace ELSE slot

getOperationID(itm) ==
    LET set == {i \in DOMAIN OperationIDOrder : itm[OperationIDOrder[i]] # NoOp}
    IN  IF set = {} THEN [method |-> "", id |-> ""]
        ELSE LET i == CHOOSE k \in set : \A j \in set : k <= j
             IN  [method |-> OperationIDMethod(OperationIDOrder[i]),
                  id     |-> itm[OperationIDOrder[i]].ID]

\* saveOperationID over the ids of all path items: an error exactly when two
\* path items report the same non-empty id (whatever order the map is walked in)
checkOperationIDUniqueness(paths) ==
    IF \E p1, p2 \in DOMAIN paths :
          /\ p1 # p2
          /\ getOperationID(paths[p1]).id # ""
          /\ getOperationID(paths[p1]).id = getOperationID(paths[p2]).id
    THEN "duplicated @id annotation"
    ELSE ""

(***************************************************************************)
(* Schema values.  A spec.Schema is a record; the places where Go holds a  *)
(* pointer (Items.Schema, AdditionalProperties.Schema, the URL of a Ref)   *)
(* hold an index into parser.nodes / parser.toBeRenamedRefURLs, so that    *)
(* copies of a schema share what the Go copies share.  Index 0 is nil.     *)
(***************************************************************************)
ANY     == "any"
ARRAY   == "array"
OBJECT  == "object"
INTEGER == "integer"
NUMBER  == "number"
STRINGTYPE == "string"
\* STRING and BOOLEAN in the source; the two names are reserved words here
BOOLEANTYPE == "boolean"

\* a nil interface{} value; other values carry their kind and their text
NilVal == [k |-> "nil", of |-> "", v |-> ""]

Val(kind, text) == [k |-> kind, of |-> "", v |-> text]

\* &spec.Schema{}
EmptySchema ==
    [type |-> "", ref |-> 0, props |-> NoMap, required |-> <<>>,
     items |-> 0, isMap |-> FALSE, addl |-> 0,
     desc |-> "", readOnly |-> FALSE, default |-> NilVal, example |-> NilVal,
     format |-> "", ext |-> <<>>,
     maximum |-> <<>>, minimum |-> <<>>, multipleOf |-> <<>>,
     maxLength |-> <<>>, minLength |-> <<>>, enum |-> <<>>]

PrimitiveSchemaVal(t) == [EmptySchema EXCEPT !.type = t]

\* allocation of a spec.Schema object: the parser with the node added, and
\* the pointer to it
NewNode(P, sv) ==
    [P |-> [P EXCEPT !.nodes = Append(@, sv)], s |-> Len(P.nodes) + 1, err |-> ""]

Ok(P, s) == [P |-> P, s |-> s, err |-> ""]

Fail(P, e) == [P |-> P, s |-> 0, err |-> e]

PrimitiveSchema(P, t) == NewNode(P, PrimitiveSchemaVal(t))

ArrayProperty(P, item) == NewNode(P, [EmptySchema EXCEPT !.type = ARRAY, !.items = item])

MapProperty(P, value) ==
    NewNode(P, [EmptySchema EXCEPT !.type = OBJECT, !.isMap = TRUE, !.addl = value])

\* the fragment of the URL of spec.RefSchema("#/definitions/" + name)
RefFragment(name) == <<"/", "definitions", "/">> \o name

ErrRecursiveParseStruct == "recursively parsing struct"
ErrFuncTypeField == "field type is func"
ErrFailedConvertPrimitiveType == "swag property: failed convert primitive type"
ErrNilSchema == "panic: nil pointer dereference"

(***************************************************************************)
(* Names.                                                                  *)
(***************************************************************************)
fullTypeName(pkgName, typeName) ==
    IF pkgName # <<>> THEN pkgName \o <<".">> \o typeName ELSE typeName

renameSchema(name, pkgPath) ==
    ReplaceAll(fullTypeName(pkgPath, LastPart(name, ".")), "/", "_")

GoPrimitiveTypes ==
    {"uint", "int", "uint8", "int8", "uint16", "int16", "byte", "uint32", "int32",
     "rune", "uint64", "int64", "float32", "float64", "bool", "string"}

IsGolangPrimitiveType(typeName) ==
    Len(typeName) = 1 /\ typeName[1] \in GoPrimitiveTypes

TransToValidSchemeType(typeName) ==
    CASE typeName \in {"uint", "int", "uint8", "int8", "uint16", "int16", "byte"} -> INTEGER
      [] typeName \in {"uint32", "int32", "rune"} -> INTEGER
      [] typeName \in {"uint64", "int64"} -> INTEGER
      [] typeName \in {"float32", "float64"} -> NUMBER
      [] typeName = "bool" -> BOOLEANTYPE
      [] typeName = "string" -> STRINGTYPE
      [] OTHER -> typeName

\* strings.ToUpper on the type-name tokens the type universe uses
UpperName(tok) ==
    CASE tok \in {"Time", "time", "TIME"} -> "TIME"
      [] tok \in {"ObjectID", "objectid"} -> "OBJECTID"
      [] tok \in {"UUID", "uuid"} -> "UUID"
      [] tok \in {"Decimal", "decimal"} -> "DECIMAL"
      [] OTHER -> tok

\* element 1 (the second) of strings.Split(name, "."), for a name with a dot
SecondPart(name) ==
    LET dots == {i \in DOMAIN name : name[i] = "."}
        d1   == CHOOSE i \in dots : \A j \in dots : i <= j
        rest == {i \in dots : i > d1}
        d2   == IF rest = {} THEN Len(name) + 1
                ELSE CHOOSE i \in rest : \A j \in rest : i <= j
    IN  SubSeq(name, d1 + 1, d2 - 1)

\* a conversion that knows no special name
convertFromSpecificToPrimitive_None(typeName) ==
    [type |-> "", err |-> ErrFailedConvertPrimitiveType]

convertFromSpecificToPrimitive(typeName) ==
    LET name  == IF "." \in Range(typeName) THEN SecondPart(typeName) ELSE typeName
        upper == IF Len(name) = 1 THEN UpperName(name[1]) ELSE ""
    IN  CASE upper \in {"TIME", "OBJECTID", "UUID"} -> [type |-> STRINGTYPE, err |-> ""]
          [] upper = "DECIMAL" -> [type |-> NUMBER, err |-> ""]
          [] OTHER -> [type |-> "", err |-> ErrFailedConvertPrimitiveType]

(***************************************************************************)
(* Text tables.  Identifiers are sequences of characters; the conversions  *)
(* of strconv are tables over the texts the inputs use.                    *)
(***************************************************************************)
UpperAlphabet ==
    <<"A", "B", "C", "D", "E", "F", "G", "H", "I", "J", "K", "L", "M",
      "N", "O", "P", "Q", "R", "S", "T", "U", "V", "W", "X", "Y", "Z">>

LowerAlphabet ==
    <<"a", "b", "c", "d", "e", "f", "g", "h", "i", "j", "k", "l", "m",
      "n", "o", "p", "q", "r", "s", "t", "u", "v", "w", "x", "y", "z">>

\* the characters in byte order, as sort.Strings compares them
ByteOrder == <<".", "/">> \o UpperAlphabet \o <<"_">> \o LowerAlphabet

IndexOf(seq, c) == CHOOSE i \in DOMAIN seq : seq[i] = c

IsUpper(c) == c \in Range(UpperAlphabet)

IsLower(c) == c \in Range(LowerAlphabet)

ToLower(c) == IF IsUpper(c) THEN LowerAlphabet[IndexOf(UpperAlphabet, c)] ELSE c

Byte(c) == IF c \in Range(ByteOrder) THEN IndexOf(ByteOrder, c) ELSE 0

RECURSIVE LessString(_, _)
LessString(a, b) ==
    IF b = <<>> THEN FALSE
    ELSE IF a = <<>> THEN TRUE
    ELSE IF Byte(Head(a)) # Byte(Head(b)) THEN Byte(Head(a)) < Byte(Head(b))
    ELSE LessString(Tail(a), Tail(b))

RECURSIVE InsertSorted(_, _)
InsertSorted(sorted, x) ==
    IF sorted = <<>> THEN <<x>>
    ELSE IF LessString(x, Head(sorted)) THEN <<x>> \o sorted
    ELSE <<Head(sorted)>> \o InsertSorted(Tail(sorted), x)

\* sort.Strings
RECURSIVE SortStrings(_)
SortStrings(strs) ==
    IF strs = <<>> THEN <<>> ELSE InsertSorted(SortStrings(Tail(strs)), Head(strs))

toSnakeCase(in) ==
    LET piece(i) ==
            IF /\ i > 1
               /\ IsUpper(in[i])
               /\ \/ (i + 1 <= Len(in) /\ IsLower(in[i + 1]))
                  \/ IsLower(in[i - 1])
            THEN <<"_", ToLower(in[i])>>
            ELSE <<ToLower(in[i])>>
        F[i \in 0..Len(in)] == IF i = 0 THEN <<>> ELSE F[i - 1] \o piece(i)
    IN  F[Len(in)]

toLowerCamelCase(in) ==
    LET F[i \in 0..Len(in)] ==
            IF i = 0 THEN [out |-> <<>>, flag |-> FALSE]
            ELSE IF (i = 1 /\ IsUpper(in[i])) \/ (F[i - 1].flag /\ IsUpper(in[i]))
                 THEN [out |-> Append(F[i - 1].out, ToLower(in[i])), flag |-> TRUE]
                 ELSE [out |-> Append(F[i - 1].out, in[i]), flag |-> FALSE]
    IN  F[Len(in)].out

\* ast.IsExported
IsExported(name) == name # <<>> /\ IsUpper(name[1])

\* the texts strconv.Atoi, strconv.ParseFloat and strconv.ParseBool accept
IntTexts == {"0", "7", "42"}

FloatTexts == IntTexts \cup {"1.5"}

BoolTexts == {"true", "false", "0", "1"}

BoolText(text) == IF text \in {"true", "1"} THEN "true" ELSE "false"

\* strings.Split(text, ",") and strings.Split(text, ":") on the example texts
SplitComma(text) == IF text = "1,2" THEN <<"1", "2">> ELSE <<text>>

SplitColon(text) == IF text = "k:1" THEN <<"k", "1">> ELSE <<text>>

IsNumericType(typeName) == typeName = INTEGER \/ typeName = NUMBER

\* a value and the error of converting a text to a scalar kind
Scalar(schemaType, text, what) ==
    CASE schemaType = STRINGTYPE -> [v |-> Val(STRINGTYPE, text), err |-> ""]
      [] schemaType = NUMBER ->
            IF text \in FloatTexts THEN [v |-> Val(NUMBER, text), err |-> ""]
            ELSE [v |-> NilVal, err |-> what]
      [] schemaType = INTEGER ->
            IF text \in IntTexts THEN [v |-> Val(INTEGER, text), err |-> ""]
            ELSE [v |-> NilVal, err |-> what]
      [] schemaType = BOOLEANTYPE ->
            IF text \in BoolTexts THEN [v |-> Val(BOOLEANTYPE, BoolText(text)), err |-> ""]
            ELSE [v |-> NilVal, err |-> what]
      [] OTHER -> [v |-> NilVal, err |-> "unsupported type"]

defineType(schemaType, value) ==
    Scalar(TransToValidSchemeType(schemaType), value, "can't convert enum value")

defineTypeOfExample(schemaType, arrayType, exampleValue) ==
    LET bad == "example value can't convert"
    IN  CASE schemaType \in {STRINGTYPE, NUMBER, INTEGER, BOOLEANTYPE} ->
                Scalar(schemaType, exampleValue, bad)
          [] schemaType = ARRAY ->
                LET values == SplitComma(exampleValue)
                    each   == [i \in DOMAIN values |-> 
                                 IF arrayType \in {STRINGTYPE, NUMBER, INTEGER, BOOLEANTYPE}
                                 THEN Scalar(arrayType, values[i], bad)
                                 ELSE [v |-> NilVal, err |-> "unsupported type"]]
                IN  IF \E i \in DOMAIN each : each[i].err # ""
                    THEN [v |-> NilVal,
                          err |-> each[CHOOSE i \in DOMAIN each :
                                          each[i].err # "" /\ \A j \in 1..(i - 1) : each[j].err = ""].err]
                    ELSE [v |-> [k |-> ARRAY, of |-> arrayType, v |-> exampleValue], err |-> ""]
          [] schemaType = OBJECT ->
                IF arrayType = "" THEN [v |-> NilVal, err |-> "unsupported type"]
                ELSE LET values == SplitComma(exampleValue)
                         okAt(i) == /\ Len(SplitColon(values[i])) = 2
                                    /\ arrayType \in {STRINGTYPE, NUMBER, INTEGER, BOOLEANTYPE}
                                    /\ Scalar(arrayType, SplitColon(values[i])[2], bad).err = ""
                     IN  IF \A i \in DOMAIN values : okAt(i)
                         THEN [v |-> [k |-> OBJECT, of |-> arrayType, v |-> exampleValue], err |-> ""]
                         ELSE [v |-> NilVal, err |-> bad]
          [] OTHER -> [v |-> NilVal, err |-> "unsupported type"]

(***************************************************************************)
(* Struct fields and their tags.  A field is                               *)
(*   [names, type, hasTag, tag, doc, comment]                              *)
(* where tag holds what reflect.StructTag.Get returns for each key ("" or  *)
(* <<>> for a key that is absent).                                         *)
(***************************************************************************)
NoTag ==
    [json |-> <<>>, swaggerignore |-> "", swaggertype |-> <<>>, example |-> "",
     format |-> "", binding |-> <<>>, validate |-> <<>>, extensions |-> <<>>,
     enums |-> <<>>, default |-> "", maximum |-> "", minimum |-> "",
     multipleOf |-> "", maxLength |-> "", minLength |-> "", readonly |-> ""]

\* the tokens that begin with "string"
StringPrefixed == {"string", "stringer"}

\* strings.Contains(jsonTag, ",string")
ContainsCommaString(jsonTag) ==
    \E i \in DOMAIN jsonTag :
        jsonTag[i] = "," /\ i + 1 <= Len(jsonTag) /\ jsonTag[i + 1] \in StringPrefixed

\* strings.TrimSpace(strings.Split(name, ",")[0])
JSONName(jsonTag) ==
    LET commas == {i \in DOMAIN jsonTag : jsonTag[i] = ","}
        first  == IF commas = {} THEN Len(jsonTag) + 1
                  ELSE CHOOSE i \in commas : \A j \in commas : i <= j
    IN  SelectSeq(SubSeq(jsonTag, 1, first - 1), LAMBDA c : c # " ")

\* strings.EqualFold(text, "true") on the texts the inputs use
EqualFoldTrue(text) == text \in {"true", "TRUE", "True"}

getFloatTag(strValue, tagName) ==
    IF strValue = "" THEN [v |-> <<>>, err |-> ""]
    ELSE IF strValue \in FloatTexts THEN [v |-> <<strValue>>, err |-> ""]
    ELSE [v |-> <<>>, err |-> "can't parse numeric value of tag " \o tagName]

getIntTag(strValue, tagName) ==
    IF strValue = "" THEN [v |-> <<>>, err |-> ""]
    ELSE IF strValue \in IntTexts THEN [v |-> <<strValue>>, err |-> ""]
    ELSE [v |-> <<>>, err |-> "can't parse numeric value of tag " \o tagName]

\* the first error of a sequence of steps, "" when every step succeeded
FirstErr(errs) ==
    IF \A i \in DOMAIN errs : errs[i] = "" THEN ""
    ELSE errs[CHOOSE i \in DOMAIN errs : errs[i] # "" /\ \A j \in 1..(i - 1) : errs[j] = ""]

\* a variant that leaves the number kind out of the zero values
StringDefaultValues_NoNumber ==
    (STRINGTYPE :> "") @@ (INTEGER :> "0") @@ (BOOLEANTYPE :> "false")

\* the zero values ",string" uses for an example
StringDefaultValues ==
    (STRINGTYPE :> "") @@ (INTEGER :> "0") @@ (BOOLEANTYPE :> "false") @@ (NUMBER :> "0")

\* the value one part of the extensions tag stores, and its key
ExtensionOf(part) ==
    IF part.eq THEN [key |-> part.name, v |-> Val(STRINGTYPE, part.value)]
    ELSE IF part.bang THEN [key |-> part.name, v |-> Val(BOOLEANTYPE, "false")]
    ELSE [key |-> part.name, v |-> Val(BOOLEANTYPE, "true")]

parseFieldTag(field, types) ==
    LET schemaType == types[1]
        arrayType  == IF Len(types) > 1 /\ types[1] \in {ARRAY, OBJECT} THEN types[2] ELSE ""
        desc       == IF field.doc # "" THEN field.doc ELSE field.comment
        base       == [desc |-> desc, schemaType |-> schemaType, arrayType |-> arrayType,
                       formatType |-> "", isRequired |-> FALSE, readOnly |-> FALSE,
                       exampleValue |-> NilVal, maximum |-> <<>>, minimum |-> <<>>,
                       multipleOf |-> <<>>, maxLength |-> <<>>, minLength |-> <<>>,
                       enums |-> <<>>, defaultValue |-> NilVal, extensions |-> <<>>]
    IN  IF ~field.hasTag THEN [sf |-> base, err |-> ""]
        ELSE
        LET structTag   == field.tag
            jsonTag     == structTag.json
            example     == IF structTag.example = "" THEN [v |-> NilVal, err |-> ""]
                           ELSE IF ContainsCommaString(jsonTag)
                                THEN [v |-> Val(STRINGTYPE, structTag.example), err |-> ""]
                                ELSE defineTypeOfExample(schemaType, arrayType, structTag.example)
            isRequired  == \/ "required" \in Range(structTag.binding)
                           \/ "required" \in Range(structTag.validate)
            extensions  == [i \in DOMAIN structTag.extensions |-> ExtensionOf(structTag.extensions[i])]
            enumType    == IF schemaType = ARRAY THEN arrayType ELSE schemaType
            enums       == [i \in DOMAIN structTag.enums |-> defineType(enumType, structTag.enums[i])]
            enumsErr    == FirstErr([i \in DOMAIN enums |-> enums[i].err])
            defaultV    == IF structTag.default = "" THEN [v |-> NilVal, err |-> ""]
                           ELSE defineType(schemaType, structTag.default)
            numeric     == IsNumericType(schemaType) \/ IsNumericType(arrayType)
            none        == [v |-> <<>>, err |-> ""]
            maximum     == IF numeric THEN getFloatTag(structTag.maximum, "maximum") ELSE none
            minimum     == IF numeric THEN getFloatTag(structTag.minimum, "minimum") ELSE none
            multipleOf  == IF numeric THEN getFloatTag(structTag.multipleOf, "multipleOf") ELSE none
            stringy     == schemaType = STRINGTYPE \/ arrayType = STRINGTYPE
            maxLength   == IF stringy THEN getIntTag(structTag.maxLength, "maxLength") ELSE none
            minLength   == IF stringy THEN getIntTag(structTag.minLength, "minLength") ELSE none
            error       == FirstErr(<<example.err, enumsErr, defaultV.err, maximum.err,
                                      minimum.err, multipleOf.err, maxLength.err, minLength.err>>)
            asString    == ContainsCommaString(jsonTag) /\ schemaType \in DOMAIN StringDefaultValues
            filled      == [base EXCEPT
                              !.exampleValue = example.v,
                              !.formatType   = structTag.format,
                              !.isRequired   = isRequired,
                              !.extensions   = extensions,
                              !.enums        = [i \in DOMAIN enums |-> enums[i].v],
                              !.defaultValue = defaultV.v,
                              !.maximum      = maximum.v,
                              !.minimum      = minimum.v,
                              !.multipleOf   = multipleOf.v,
                              !.maxLength    = maxLength.v,
                              !.minLength    = minLength.v,
                              !.readOnly     = structTag.readonly = "true"]
        IN  IF error # "" THEN [sf |-> base, err |-> error]
            ELSE IF asString
                 THEN [sf |-> [filled EXCEPT
                                 !.schemaType   = STRINGTYPE,
                                 !.exampleValue =
                                     IF filled.exampleValue = NilVal
                                     THEN Val(STRINGTYPE, StringDefaultValues[schemaType])
                                     ELSE filled.exampleValue],
                       err |-> ""]
                 ELSE [sf |-> filled, err |-> ""]

(***************************************************************************)
(* The source program under analysis: type expressions (ast.Expr), fields  *)
(* and the type declarations ParseTypes collects.                          *)
(***************************************************************************)
Ident(name)     == [k |-> "ident", name |-> name]

Star(x)         == [k |-> "star", x |-> x]

ArrayType(elt)  == [k |-> "array", x |-> elt]

MapType(value)  == [k |-> "map", x |-> value]

StructType(fields) == [k |-> "struct", fields |-> fields]

InterfaceType   == [k |-> "interface"]

FuncType        == [k |-> "func"]

ChanType        == [k |-> "chan"]

Field(names, type) ==
    [names |-> names, type |-> type, hasTag |-> FALSE, tag |-> NoTag, doc |-> "", comment |-> ""]

Tagged(names, type, tag) ==
    [names |-> names, type |-> type, hasTag |-> TRUE, tag |-> tag, doc |-> "", comment |-> ""]

\* the type declarations of the analysed packages
TypeSpecDefs ==
    {"I1", "I2", "I3", "Node", "Ping", "Pong", "MyInt",
     "Emb", "Inner", "Outer", "List", "Fn", "Cb", "Twice", "Tagd",
     "Pair", "Solo", "Base", "Derived", "Shadow"}

TypeSpecDef(t) ==
    CASE t = "I1" ->    \* package a/b:  type Item struct { ID int }
            [PkgPath |-> <<"a", "/", "b">>, PkgName |-> "b", Name |-> "Item",
             Type |-> StructType(<<Field(<< <<"I", "D">> >>, Ident(<<"int">>))>>)]
      [] t = "I2" ->    \* package a_b:  type Item struct { Name string }
            [PkgPath |-> <<"a", "_", "b">>, PkgName |-> "a_b", Name |-> "Item",
             Type |-> StructType(<<Field(<< <<"N", "a", "m", "e">> >>, Ident(<<"string">>))>>)]
      [] t = "I3" ->    \* package c:  type Item struct { Next *Item; Count MyInt }
            [PkgPath |-> <<"c">>, PkgName |-> "c", Name |-> "Item",
             Type |-> StructType(<<Field(<< <<"N", "e", "x", "t">> >>, Star(Ident(<<"Item">>))),
                                   Field(<< <<"C", "o", "u", "n", "t">> >>, Ident(<<"MyInt">>))>>)]
      [] t = "Node" ->  \* package c:  type Node struct { Kids []Node; Index map[string]*Node }
            [PkgPath |-> <<"c">>, PkgName |-> "c", Name |-> "Node",
             Type |-> StructType(<<Field(<< <<"K", "i", "d", "s">> >>, ArrayType(Ident(<<"Node">>))),
                                   Field(<< <<"I", "n", "d", "e", "x">> >>,
                                         MapType(Star(Ident(<<"Node">>))))>>)]
      [] t = "Ping" ->  \* package c:  type Ping struct { Pong *Pong }
            [PkgPath |-> <<"c">>, PkgName |-> "c", Name |-> "Ping",
             Type |-> StructType(<<Field(<< <<"P", "o", "n", "g">> >>, Star(Ident(<<"Pong">>)))>>)]
      [] t = "Pong" ->  \* package c:  type Pong struct { Ping *Ping }
            [PkgPath |-> <<"c">>, PkgName |-> "c", Name |-> "Pong",
             Type |-> StructType(<<Field(<< <<"P", "i", "n", "g">> >>, Star(Ident(<<"Ping">>)))>>)]
      [] t = "MyInt" -> \* package c:  type MyInt int
            [PkgPath |-> <<"c">>, PkgName |-> "c", Name |-> "MyInt",
             Type |-> Ident(<<"int">>)]
      [] t = "Emb" ->   \* package c:  type Emb struct { *Emb; ID int }
            [PkgPath |-> <<"c">>, PkgName |-> "c", Name |-> "Emb",
             Type |-> StructType(<<Field(<<>>, Star(Ident(<<"Emb">>))),
                                   Field(<< <<"I", "D">> >>, Ident(<<"int">>))>>)]
      [] t = "Inner" -> \* package c:  type Inner struct { Back *Outer }
            [PkgPath |-> <<"c">>, PkgName |-> "c", Name |-> "Inner",
             Type |-> StructType(<<Field(<< <<"B", "a", "c", "k">> >>, Star(Ident(<<"Outer">>)))>>)]
      [] t = "Outer" -> \* package c:  type Outer struct { Inner }
            [PkgPath |-> <<"c">>, PkgName |-> "c", Name |-> "Outer",
             Type |-> StructType(<<Field(<<>>, Ident(<<"Inner">>))>>)]
      [] t = "List" ->  \* package c:  type List []List
            [PkgPath |-> <<"c">>, PkgName |-> "c", Name |-> "List",
             Type |-> ArrayType(Ident(<<"List">>))]
      [] t = "Fn" ->    \* package c:  type Fn func()
            [PkgPath |-> <<"c">>, PkgName |-> "c", Name |-> "Fn",
             Type |-> FuncType]
      [] t = "Cb" ->    \* package c:  type Cb struct { F func(); G []func(); H Fn; ID int }
            [PkgPath |-> <<"c">>, PkgName |-> "c", Name |-> "Cb",
             Type |-> StructType(<<Field(<< <<"F">> >>, FuncType),
                                   Field(<< <<"G">> >>, ArrayType(FuncType)),
                                   Field(<< <<"H">> >>, Ident(<<"Fn">>)),
                                   Field(<< <<"I", "D">> >>, Ident(<<"int">>))>>)]
      [] t = "Twice" -> \* package c:  type Twice struct { H Fn; K Fn; ID int }
            [PkgPath |-> <<"c">>, PkgName |-> "c", Name |-> "Twice",
             Type |-> StructType(<<Field(<< <<"H">> >>, Ident(<<"Fn">>)),
                                   Field(<< <<"K">> >>, Ident(<<"Fn">>)),
                                   Field(<< <<"I", "D">> >>, Ident(<<"int">>))>>)]
      [] t = "Tagd" ->  \* package c:  type Tagd struct { Count MyInt `example:"7"` }
            [PkgPath |-> <<"c">>, PkgName |-> "c", Name |-> "Tagd",
             Type |-> StructType(<<Tagged(<< <<"C", "o", "u", "n", "t">> >>, Ident(<<"MyInt">>),
                                          [NoTag EXCEPT !.example = "7"])>>)]
      [] t = "Pair" ->  \* package c:  type Pair struct { A, B int; UserName string; hidden int;
                        \*     Skip int `swaggerignore:"true"`; Dash int `json:"-"`; Named int `json:"n"` }
            [PkgPath |-> <<"c">>, PkgName |-> "c", Name |-> "Pair",
             Type |-> StructType(<<Field(<< <<"A">>, <<"B">> >>, Ident(<<"int">>)),
                                   Field(<< <<"U", "s", "e", "r", "N", "a", "m", "e">> >>,
                                         Ident(<<"string">>)),
                                   Field(<< <<"h", "i", "d", "d", "e", "n">> >>, Ident(<<"int">>)),
                                   Tagged(<< <<"S", "k", "i", "p">> >>, Ident(<<"int">>),
                                          [NoTag EXCEPT !.swaggerignore = "true"]),
                                   Tagged(<< <<"D", "a", "s", "h">> >>, Ident(<<"int">>),
                                          [NoTag EXCEPT !.json = <<"-">>]),
                                   Tagged(<< <<"N", "a", "m", "e", "d">> >>, Ident(<<"int">>),
                                          [NoTag EXCEPT !.json = <<"n">>])>>)]
      [] t = "Solo" ->  \* package c:  type Solo struct { A int; UserName string; hidden int;
                        \*     Skip int `swaggerignore:"true"`; Dash int `json:"-"`; Named int `json:"n"` }
            [PkgPath |-> <<"c">>, PkgName |-> "c", Name |-> "Solo",
             Type |-> StructType(<<Field(<< <<"A">> >>, Ident(<<"int">>)),
                                   Field(<< <<"U", "s", "e", "r", "N", "a", "m", "e">> >>,
                                         Ident(<<"string">>)),
                                   Field(<< <<"h", "i", "d", "d", "e", "n">> >>, Ident(<<"int">>)),
                                   Tagged(<< <<"S", "k", "i", "p">> >>, Ident(<<"int">>),
                                          [NoTag EXCEPT !.swaggerignore = "true"]),
                                   Tagged(<< <<"D", "a", "s", "h">> >>, Ident(<<"int">>),
                                          [NoTag EXCEPT !.json = <<"-">>]),
                                   Tagged(<< <<"N", "a", "m", "e", "d">> >>, Ident(<<"int">>),
                                          [NoTag EXCEPT !.json = <<"n">>])>>)]
      [] t = "Base" ->  \* package c:  type Base struct { X int `binding:"required"`; W int }
            [PkgPath |-> <<"c">>, PkgName |-> "c", Name |-> "Base",
             Type |-> StructType(<<Tagged(<< <<"X">> >>, Ident(<<"int">>),
                                          [NoTag EXCEPT !.binding = <<"required">>]),
                                   Field(<< <<"W">> >>, Ident(<<"int">>))>>)]
      [] t = "Derived" -> \* package c:  type Derived struct { Y int `validate:"required"`; Base;
                          \*     B int `binding:"required"`; V int }
            [PkgPath |-> <<"c">>, PkgName |-> "c", Name |-> "Derived",
             Type |-> StructType(<<Tagged(<< <<"Y">> >>, Ident(<<"int">>),
                                          [NoTag EXCEPT !.validate = <<"required">>]),
                                   Field(<<>>, Ident(<<"Base">>)),
                                   Tagged(<< <<"B">> >>, Ident(<<"int">>),
                                          [NoTag EXCEPT !.binding = <<"required">>]),
                                   Field(<< <<"V">> >>, Ident(<<"int">>))>>)]
      [] t = "Shadow" -> \* package c:  type Shadow struct { Base; X string `binding:"required"` }
            [PkgPath |-> <<"c">>, PkgName |-> "c", Name |-> "Shadow",
             Type |-> StructType(<<Field(<<>>, Ident(<<"Base">>)),
                                   Tagged(<< <<"X">> >>, Ident(<<"string">>),
                                          [NoTag EXCEPT !.binding = <<"required">>])>>)]

\* the display name of a declaration: the bare type name
TypeDocName(t) == <<TypeSpecDef(t).Name>>

\* the declaration a type name denotes in a file of package `file`, "" for none
FindTypeSpec(typeName, file) ==
    LET hits == IF "." \in Range(typeName)
                THEN {t \in TypeSpecDefs :
                        /\ TypeSpecDef(t).PkgName = typeName[1]
                        /\ <<TypeSpecDef(t).Name>> = LastPart(typeName, ".")}
                ELSE {t \in TypeSpecDefs :
                        /\ TypeSpecDef(t).PkgPath = file
                        /\ <<TypeSpecDef(t).Name>> = typeName}
    IN  IF hits = {} THEN "" ELSE CHOOSE t \in hits : TRUE

getFieldType(type) ==
    IF type.k = "ident" THEN [name |-> type.name, err |-> ""]
    ELSE IF type.k = "star" /\ type.x.k = "ident" THEN [name |-> type.x.name, err |-> ""]
    ELSE IF type.k = "star" /\ type.x.k = "star" /\ type.x.x.k = "ident"
         THEN [name |-> type.x.x.name, err |-> ""]
    ELSE [name |-> <<>>, err |-> "unknown field type"]

(***************************************************************************)
(* The Parser object.  heap holds the *Schema objects (Name, PkgPath,      *)
(* Schema), nodes the *spec.Schema objects; the maps of the Parser hold    *)
(* indices into them.  A definitions entry is a copy of a schema value,    *)
(* with the declaration it was written for kept beside it (`of`), and      *)
(* issuedFor keeps for every recorded URL the declaration it was issued    *)
(* for: two history values the code does not store.                        *)
(***************************************************************************)
CamelCase  == "camelcase"
SnakeCase  == "snakecase"
PascalCase == "pascalcase"

New(strict) ==
    [Strict             |-> strict,
     PropNamingStrategy |-> CamelCase,
     Paths              |-> NoMap,
     Definitions        |-> NoMap,
     SecurityDefinitions |-> NoMap,
     parsedSchemas      |-> NoMap,
     outputSchemas      |-> NoMap,
     existSchemaNames   |-> NoMap,
     toBeRenamedSchemas |-> NoMap,
     toBeRenamedRefURLs |-> <<>>,
     issuedFor          |-> <<>>,
     structStack        |-> <<>>,
     heap               |-> <<>>,
     nodes              |-> <<>>]

\* RefSchema(name): a new URL, recorded by the caller, and a schema holding it
RefSchema(P, name, t) ==
    NewNode([P EXCEPT !.toBeRenamedRefURLs = Append(@, RefFragment(name)),
                      !.issuedFor = Append(@, t)],
            [EmptySchema EXCEPT !.ref = Len(P.toBeRenamedRefURLs) + 1])

\* schema.Ref.String() without the leading "#"
RefString(P, sv) == IF sv.ref = 0 THEN <<>> ELSE P.toBeRenamedRefURLs[sv.ref]

isInStructStack(P, t) == t \in Range(P.structStack)

getRefTypeSchema(P, t, schema) ==
    IF schema = 0 THEN Fail(P, ErrNilSchema)
    ELSE
    LET obj   == P.heap[schema]
        P1    == IF t \in DOMAIN P.outputSchemas THEN P
                 ELSE
                 LET exists == obj.Name \in DOMAIN P.existSchemaNames
                     exist  == P.heap[P.existSchemaNames[obj.Name]]
                     name   == IF exists THEN renameSchema(obj.Name, obj.PkgPath) ELSE obj.Name
                     body   == IF obj.Schema # 0 THEN P.nodes[obj.Schema] ELSE EmptySchema
                 IN  [P EXCEPT
                        !.toBeRenamedSchemas =
                            IF exists /\ exist.Name \notin DOMAIN @
                            THEN Put(@, exist.Name, exist.PkgPath) ELSE @,
                        !.existSchemaNames =
                            IF exists THEN @ ELSE Put(@, obj.Name, schema),
                        !.heap[schema].Name = name,
                        !.Definitions = Put(@, name, [of |-> t, s |-> body]),
                        !.outputSchemas = Put(@, t, schema)]
    IN  RefSchema(P1, P1.heap[schema].Name, t)

(***************************************************************************)
(* The type schema resolver.  Every operator takes the Parser and returns  *)
(* it with its result: [P, s, err] with s a pointer (0 for nil), or        *)
(* [P, props, required, err] for a struct field.                           *)
(***************************************************************************)
RECURSIVE GetSchemaTypePathOf(_, _, _)
GetSchemaTypePathOf(P, sv, depth) ==
    IF depth = 0 THEN <<>>
    ELSE IF sv.ref # 0
    THEN LET name == LastPart(RefString(P, sv), "/")
         IN  IF name \in DOMAIN P.Definitions
             THEN GetSchemaTypePathOf(P, P.Definitions[name].s, depth)
             ELSE <<>>
    ELSE IF sv.type = ARRAY
    THEN <<ARRAY>> \o (IF sv.items = 0 THEN <<>>
                       ELSE GetSchemaTypePathOf(P, P.nodes[sv.items], depth - 1))
    ELSE IF sv.type = OBJECT /\ sv.addl # 0
    THEN <<OBJECT>> \o GetSchemaTypePathOf(P, P.nodes[sv.addl], depth - 1)
    ELSE IF sv.type # "" THEN <<sv.type>>
    ELSE <<ANY>>

GetSchemaTypePath(P, schema, depth) ==
    IF schema = 0 THEN <<>> ELSE GetSchemaTypePathOf(P, P.nodes[schema], depth)

PRIMITIVE == "primitive"

\* the type names CheckSchemaType accepts
PrimitiveTypes == {ARRAY, BOOLEANTYPE, INTEGER, NUMBER, OBJECT, STRINGTYPE}

RECURSIVE BuildCustomSchema(_, _)
BuildCustomSchema(P, types) ==
    IF types = <<>> THEN Ok(P, 0)
    ELSE IF Head(types) = PRIMITIVE
    THEN IF Len(types) = 1 THEN Fail(P, "need primitive type after primitive")
         ELSE BuildCustomSchema(P, Tail(types))
    ELSE IF Head(types) = ARRAY
    THEN IF Len(types) = 1 THEN Fail(P, "need array item type after array")
         ELSE LET r == BuildCustomSchema(P, Tail(types))
              IN  IF r.err # "" THEN r ELSE ArrayProperty(r.P, r.s)
    ELSE IF Head(types) = OBJECT
    THEN IF Len(types) = 1 THEN PrimitiveSchema(P, OBJECT)
         ELSE LET r == BuildCustomSchema(P, Tail(types))
              IN  IF r.err # "" THEN r ELSE MapProperty(r.P, r.s)
    ELSE IF Head(types) \in PrimitiveTypes THEN PrimitiveSchema(P, Head(types))
    ELSE Fail(P, "not a supported type")

\* the property name of a named field, and the schema its swaggertype tag asks for
getFieldName(P, field) ==
    LET goName == field.names[1]
        noName == [P |-> P, name |-> <<>>, s |-> 0, err |-> ""]
        tagged == field.hasTag
        name   == IF tagged THEN JSONName(field.tag.json) ELSE <<>>
        custom == IF tagged /\ field.tag.swaggertype # <<>>
                  THEN BuildCustomSchema(P, field.tag.swaggertype)
                  ELSE Ok(P, 0)
        final  == IF name # <<>> THEN name
                  ELSE CASE P.PropNamingStrategy = SnakeCase  -> toSnakeCase(goName)
                         [] P.PropNamingStrategy = PascalCase -> goName
                         [] OTHER                             -> toLowerCamelCase(goName)
    IN  IF ~IsExported(goName) THEN noName
        ELSE IF tagged /\ EqualFoldTrue(field.tag.swaggerignore) THEN noName
        ELSE IF tagged /\ name = <<"-">> THEN noName
        ELSE IF custom.err # "" THEN [P |-> custom.P, name |-> <<>>, s |-> 0, err |-> custom.err]
        ELSE [P |-> custom.P, name |-> final, s |-> custom.s, err |-> ""]

FieldOk(P, props, required) == [P |-> P, props |-> props, required |-> required, err |-> ""]

FieldFail(P, e) == [P |-> P, props |-> NoMap, required |-> <<>>, err |-> e]

\* the assignments parseStructField makes to the schema of a named field and
\* to its element schema, on the objects themselves
ApplyStructField(P, schema, sf) ==
    LET n1  == [P.nodes EXCEPT ![schema] =
                   [@ EXCEPT !.desc     = sf.desc,
                             !.readOnly = sf.readOnly,
                             !.default  = sf.defaultValue,
                             !.example  = sf.exampleValue,
                             !.format   = IF sf.schemaType # ARRAY THEN sf.formatType ELSE @,
                             !.ext      = sf.extensions]]
        ele == IF sf.schemaType = ARRAY THEN n1[schema].items ELSE schema
        n2  == [n1 EXCEPT ![ele] =
                   [@ EXCEPT !.format     = IF sf.schemaType = ARRAY THEN sf.formatType ELSE @,
                             !.maximum    = sf.maximum,
                             !.minimum    = sf.minimum,
                             !.multipleOf = sf.multipleOf,
                             !.maxLength  = sf.maxLength,
                             !.minLength  = sf.minLength,
                             !.enum       = sf.enums]]
    IN  IF ele = 0 THEN Fail(P, ErrNilSchema)
        ELSE Ok([P EXCEPT !.nodes = n2], schema)

RECURSIVE getTypeSchema(_, _, _, _)
RECURSIVE ParseDefinition(_, _)
RECURSIVE parseTypeExpr(_, _, _, _)
RECURSIVE parseStructFrom(_, _, _, _, _, _)
RECURSIVE parseStructField(_, _, _)

\* getTypeSchema once the cache lookup or ParseDefinition has answered with r
getTypeSchemaDone(r, typeSpecDef, ref) ==
    IF r.err # ""
    THEN IF r.err = ErrRecursiveParseStruct /\ ref
         THEN getRefTypeSchema(r.P, typeSpecDef, r.s)
         ELSE Fail(r.P, r.err)
    ELSE IF ref /\ r.P.nodes[r.P.heap[r.s].Schema].type = OBJECT
         THEN getRefTypeSchema(r.P, typeSpecDef, r.s)
         ELSE Ok(r.P, r.P.heap[r.s].Schema)

getTypeSchema(P, typeName, file, ref) ==
    IF IsGolangPrimitiveType(typeName)
    THEN PrimitiveSchema(P, TransToValidSchemeType(typeName[1]))
    ELSE IF convertFromSpecificToPrimitive(typeName).err = ""
    THEN PrimitiveSchema(P, convertFromSpecificToPrimitive(typeName).type)
    ELSE IF FindTypeSpec(typeName, file) = "" THEN Fail(P, "cannot find type definition")
    ELSE getTypeSchemaDone(
             IF FindTypeSpec(typeName, file) \in DOMAIN P.parsedSchemas
             THEN Ok(P, P.parsedSchemas[FindTypeSpec(typeName, file)])
             ELSE ParseDefinition(P, FindTypeSpec(typeName, file)),
             FindTypeSpec(typeName, file), ref)

\* a new Schema{Name, PkgPath, Schema} object
NewSchema(P, t, definition) ==
    [P |-> [P EXCEPT !.heap = Append(@, [Name    |-> TypeDocName(t),
                                         PkgPath |-> TypeSpecDef(t).PkgPath,
                                         Schema  |-> definition])],
     s |-> Len(P.heap) + 1]

\* ParseDefinition of a type that is on the struct stack
ParseDefinitionRecursion(n, t) ==
    [P |-> NewSchema(n.P, t, n.s).P, s |-> NewSchema(n.P, t, n.s).s,
     err |-> ErrRecursiveParseStruct]

\* ParseDefinition once parseTypeExpr has answered with d
ParseDefinitionDone(d, t) ==
    IF d.err # "" THEN Fail(d.P, d.err)
    ELSE
    LET o  == NewSchema(d.P, t, d.s)
        P2 == [o.P EXCEPT !.parsedSchemas = Put(@, t, o.s)]
    IN  IF t \in DOMAIN P2.outputSchemas
        THEN Ok([P2 EXCEPT !.Definitions =
                    Put(@, P2.heap[P2.outputSchemas[t]].Name,
                        [of |-> t, s |-> P2.nodes[d.s]])], o.s)
        ELSE Ok(P2, o.s)

ParseDefinition(P, t) ==
    IF t \in DOMAIN P.parsedSchemas THEN Ok(P, P.parsedSchemas[t])
    ELSE IF isInStructStack(P, t)
    THEN ParseDefinitionRecursion(PrimitiveSchema(P, OBJECT), t)
    ELSE ParseDefinitionDone(
             parseTypeExpr([P EXCEPT !.structStack = Append(@, t)],
                           TypeSpecDef(t).PkgPath, TypeSpecDef(t).Type, FALSE), t)

\* spec.ArrayProperty / spec.MapProperty around an element schema, or its error
WrapElement(r, kind) ==
    IF r.err # "" THEN Fail(r.P, r.err)
    ELSE IF kind = ARRAY THEN ArrayProperty(r.P, r.s)
    ELSE MapProperty(r.P, r.s)

parseTypeExpr(P, file, typeExpr, ref) ==
    CASE typeExpr.k = "interface" -> NewNode(P, EmptySchema)
      [] typeExpr.k = "struct"    -> parseStructFrom(P, file, typeExpr.fields, 1, <<>>, NoMap)
      [] typeExpr.k = "ident"     -> getTypeSchema(P, typeExpr.name, file, ref)
      [] typeExpr.k = "star"      -> parseTypeExpr(P, file, typeExpr.x, ref)
      [] typeExpr.k = "array"     -> WrapElement(parseTypeExpr(P, file, typeExpr.x, TRUE), ARRAY)
      [] typeExpr.k = "map"       ->
            IF typeExpr.x.k = "interface" THEN MapProperty(P, 0)
            ELSE WrapElement(parseTypeExpr(P, file, typeExpr.x, TRUE), OBJECT)
      [] typeExpr.k = "func"      -> Fail(P, ErrFuncTypeField)
      [] OTHER                    -> PrimitiveSchema(P, OBJECT)

\* the loop of parseStruct after field i has answered with f
parseStructNext(f, file, fields, i, required, properties) ==
    IF f.err # "" /\ f.err # ErrFuncTypeField THEN Fail(f.P, f.err)
    ELSE parseStructFrom(f.P, file, fields, i + 1,
                         IF f.err = "" THEN required \o f.required ELSE required,
                         IF f.err = "" THEN f.props @@ properties ELSE properties)

\* parseStruct from field i on, with the required names and the properties
\* collected so far
parseStructFrom(P, file, fields, i, required, properties) ==
    IF i > Len(fields)
    THEN NewNode(P, [EmptySchema EXCEPT !.type = OBJECT,
                                        !.props = properties,
                                        !.required = SortStrings(required)])
    ELSE parseStructNext(parseStructField(P, file, fields[i]), file, fields, i,
                         required, properties)

parseStruct(P, file, fields) == parseStructFrom(P, file, fields, 1, <<>>, NoMap)

\* an embedded field whose type has answered with r
parseStructFieldEmbedded(r, typeName) ==
    IF r.err # "" THEN FieldFail(r.P, r.err)
    ELSE IF r.P.nodes[r.s].type = OBJECT
    THEN IF DOMAIN r.P.nodes[r.s].props = {} THEN FieldOk(r.P, NoMap, <<>>)
         ELSE FieldOk(r.P, r.P.nodes[r.s].props, r.P.nodes[r.s].required)
    ELSE FieldOk(r.P, typeName :> r.P.nodes[r.s], <<>>)

\* a named field after parseFieldTag: the override of ",string" and the
\* assignments to the schema
parseStructFieldTagged(r, name, types, tag) ==
    IF tag.err # "" THEN FieldFail(r.P, tag.err)
    ELSE
    LET a == ApplyStructField(
                 IF tag.sf.schemaType = STRINGTYPE /\ types[1] # tag.sf.schemaType
                 THEN PrimitiveSchema(r.P, tag.sf.schemaType).P ELSE r.P,
                 IF tag.sf.schemaType = STRINGTYPE /\ types[1] # tag.sf.schemaType
                 THEN PrimitiveSchema(r.P, tag.sf.schemaType).s ELSE r.s,
                 tag.sf)
    IN  IF a.err # "" THEN FieldFail(a.P, a.err)
        ELSE FieldOk(a.P, name :> a.P.nodes[a.s],
                     IF tag.sf.isRequired THEN <<name>> ELSE <<>>)

\* a named field whose schema has the type path types
parseStructFieldPath(r, name, field, types) ==
    IF types = <<>> THEN FieldFail(r.P, "invalid type for field")
    ELSE parseStructFieldTagged(r, name, types, parseFieldTag(field, types))

\* a named field whose type has answered with r
parseStructFieldTyped(r, name, field) ==
    IF r.err # "" THEN FieldFail(r.P, r.err)
    ELSE parseStructFieldPath(r, name, field, GetSchemaTypePath(r.P, r.s, 2))

\* a named field after getFieldName has answered with n
parseStructFieldNamed(n, file, field) ==
    IF n.err # "" THEN FieldFail(n.P, n.err)
    ELSE IF n.name = <<>> THEN FieldOk(n.P, NoMap, <<>>)
    ELSE parseStructFieldTyped(
             IF n.s # 0 THEN Ok(n.P, n.s)
             ELSE IF getFieldType(field.type).err = ""
             THEN getTypeSchema(n.P, getFieldType(field.type).name, file, TRUE)
             ELSE parseTypeExpr(n.P, file, field.type, FALSE),
             n.name, field)

parseStructField(P, file, field) ==
    IF field.names = <<>>
    THEN IF field.hasTag /\ EqualFoldTrue(field.tag.swaggerignore) THEN FieldOk(P, NoMap, <<>>)
         ELSE IF getFieldType(field.type).err # "" THEN FieldFail(P, getFieldType(field.type).err)
         ELSE parseStructFieldEmbedded(
                  getTypeSchema(P, getFieldType(field.type).name, file, FALSE),
                  getFieldType(field.type).name)
    ELSE parseStructFieldNamed(getFieldName(P, field), file, field)

renameRefSchemas(P) ==
    IF DOMAIN P.toBeRenamedSchemas = {} THEN P
    ELSE
    LET moved  == {name \in DOMAIN P.toBeRenamedSchemas : name \in DOMAIN P.Definitions}
        target(name) == renameSchema(name, P.toBeRenamedSchemas[name])
        kept   == DOMAIN P.Definitions \ moved
        keys   == kept \cup {target(name) : name \in moved}
        defs   == [k \in keys |->
                     IF \E name \in moved : target(name) = k
                     THEN P.Definitions[CHOOSE name \in moved : target(name) = k]
                     ELSE P.Definitions[k]]
        urls   == [i \in DOMAIN P.toBeRenamedRefURLs |->
                     LET parts == P.toBeRenamedRefURLs[i]
                         name  == LastPart(parts, "/")
                     IN  IF name \in DOMAIN P.toBeRenamedSchemas
                         THEN ButLastPart(parts, "/") \o target(name)
                         ELSE parts]
    IN  [P EXCEPT !.Definitions = defs, !.toBeRenamedRefURLs = urls]

(***************************************************************************)
(* The driver.  ParseDir creates one Parser and calls GinSwagger once per  *)
(* file; GinSwagger takes the types of the packages, parses every          *)
(* declaration of the file and inserts its routes, then runs the rename    *)
(* pass and the operation-id check.  An error ends the run.                *)
(***************************************************************************)
\* the package of the files that hold the handlers
HandlerFile == <<"h">>

\* PackagesDefinitions.ParseTypes: the map of parsed schemas it returns
ParseTypes == NoMap

RECURSIVE ParseCommentFrom(_, _, _, _)

\* the comments of a declaration after the type of comment i has answered with r
ParseCommentNext(r, types, i, out) ==
    IF r.err # "" THEN [P |-> r.P, out |-> out, err |-> r.err]
    ELSE ParseCommentFrom(r.P, types, i + 1,
                          Append(out, [k |-> "type", of |-> FindTypeSpec(types[i], HandlerFile),
                                       s |-> r.s]))

ParseCommentFrom(P, types, i, out) ==
    IF i > Len(types) THEN [P |-> P, out |-> out, err |-> ""]
    ELSE ParseCommentNext(getTypeSchema(P, types[i], HandlerFile, TRUE), types, i, out)

\* Operation.ParseComment over the comments of one declaration: the types its
\* @Param / @Success / @Failure lines name are resolved as references, in order
ParseComment(P, op) == ParseCommentFrom(P, op.types, 1, <<>>)

RouteError(route) ==
    <<"route", route.HTTPMethod, route.Path, "is declared multiple times">>

\* the loop over operation.RouterProperties: the paths, the warnings written
\* and the error returned
RECURSIVE InsertRoutes(_, _, _, _, _, _)
InsertRoutes(paths, strict, operation, routes, i, log) ==
    IF i > Len(routes) THEN [paths |-> paths, log |-> log, err |-> <<>>]
    ELSE
    LET routeProperties == routes[i]
        pathItem == IF routeProperties.Path \in DOMAIN paths
                    THEN paths[routeProperties.Path] ELSE EmptyPathItem
        dup      == hasRouteMethodOp(pathItem, routeProperties.HTTPMethod)
        stored   == Put(paths, routeProperties.Path,
                        setRouteMethodOp(pathItem, routeProperties.HTTPMethod, operation))
    IN  IF dup /\ strict THEN [paths |-> paths, log |-> log, err |-> RouteError(routeProperties)]
        ELSE InsertRoutes(stored, strict, operation, routes, i + 1,
                          IF dup THEN Append(log, <<"warning:">> \o RouteError(routeProperties))
                          ELSE log)

GinSwaggerBegin ==
    /\ pc = "idle"
    /\ nfiles < MaxFiles
    /\ parser' = [parser EXCEPT !.parsedSchemas = ParseTypes]
    /\ pc' = "parsing"
    /\ nfiles' = nfiles + 1
    /\ UNCHANGED <<ndecls, err, debug, schemas>>

\* the rest of one turn of the declaration loop, once the comments of the
\* declaration have answered with c and its routes with r
ParseDeclDone(c, r, g) ==
    IF c.err # ""
    THEN /\ parser' = c.P
         /\ err' = <<"ParseComment error", c.err>>
         /\ pc' = "failed"
         /\ debug' = debug \o g.log
         /\ schemas' = schemas \o g.out
    ELSE /\ parser' = [c.P EXCEPT !.Paths = r.paths]
         /\ debug' = debug \o g.log \o r.log
         /\ schemas' = schemas \o g.out \o c.out
         /\ err' = r.err
         /\ pc' = IF r.err # <<>> THEN "failed" ELSE "parsing"

ParseDeclRoutes(c, op, g) ==
    ParseDeclDone(c, InsertRoutes(c.P.Paths, c.P.Strict, [decl |-> ndecls + 1, ID |-> op.ID],
                                  op.routes, 1, <<>>), g)

\* a declaration whose comments are as the author wrote them
AsWritten == [log |-> <<>>, out |-> <<>>]

ParseDecl(op) ==
    /\ pc = "parsing"
    /\ ndecls < MaxDecls
    /\ ndecls' = ndecls + 1
    /\ UNCHANGED nfiles
    /\ ParseDeclRoutes(ParseComment(parser, op), op, AsWritten)

GinSwaggerEnd ==
    /\ pc = "parsing"
    /\ LET P == renameRefSchemas(parser)
           e == checkOperationIDUniqueness(P.Paths)
       IN  /\ parser' = P
           /\ err' = IF e = "" THEN <<>> ELSE <<e>>
           /\ pc' = IF e = "" THEN "idle" ELSE "failed"
    /\ UNCHANGED <<nfiles, ndecls, debug, schemas>>

Init ==
    /\ parser \in {New(strict) : strict \in BOOLEAN}
    /\ pc = "idle"
    /\ nfiles = 0
    /\ ndecls = 0
    /\ err = <<>>
    /\ debug = <<>>
    /\ schemas = <<>>

(***************************************************************************)
(* Document assembly: declarations that carry routes and operation ids.    *)
(***************************************************************************)
RoutePaths == {"/a", "/b"}

RouteMethods == {"get", "GET", "post", "trace"}

OperationIDs == {"", "x"}

RouteOps ==
    {[ID |-> id, routes |-> <<[Path |-> p, HTTPMethod |-> m]>>, types |-> <<>>] :
        id \in OperationIDs, p \in RoutePaths, m \in RouteMethods}

Next ==
    \/ GinSwaggerBegin
    \/ \E op \in RouteOps : ParseDecl(op)
    \/ GinSwaggerEnd

Spec == Init /\ [][Next]_vars

\* GinSwagger has returned nil at least once and the run goes on
Returned == pc = "idle" /\ nfiles > 0

\* the operations the document holds: [path, slot, op]
DocumentOps ==
    {[path |-> p, slot |-> s, op |-> parser.Paths[p][s]] :
        p \in DOMAIN parser.Paths, s \in Slots} \ 
    {[path |-> p, slot |-> s, op |-> NoOp] : p \in DOMAIN parser.Paths, s \in Slots}

(***************************************************************************)
(* C1: after GinSwagger returns without error, no two operations of the    *)
(* document (at different paths or at different methods of one path)       *)
(* carry the same non-empty operation ID.                                  *)
(***************************************************************************)
C1_OperationIDsUnique ==
    Returned =>
        \A a, b \in DocumentOps :
            (a.op.decl # b.op.decl /\ a.op.ID # "") => a.op.ID # b.op.ID

(***************************************************************************)
(* C9: when a declaration is inserted for a (path, method) that already    *)
(* holds an operation, a strict Parser returns the error naming the method *)
(* and the path, and a non-strict Parser writes the warning, holds the     *)
(* later operation for that pair and keeps the other pairs of the path.    *)
(***************************************************************************)
C9_InsertExisting(op) ==
    LET route == op.routes[1]
        slot  == ToUpper(route.HTTPMethod)
        held  == /\ route.Path \in DOMAIN parser.Paths
                 /\ slot \in Slots
                 /\ parser.Paths[route.Path][slot] # NoOp
        msg   == <<"route", route.HTTPMethod, route.Path, "is declared multiple times">>
    IN  (ParseDecl(op) /\ held) =>
            IF parser.Strict
            THEN /\ err' = msg
                 /\ pc' = "failed"
            ELSE /\ debug' = Append(debug, <<"warning:">> \o msg)
                 /\ err' = <<>>
                 /\ parser'.Paths[route.Path][slot] = [decl |-> ndecls + 1, ID |-> op.ID]
                 /\ \A s \in Slots \ {slot} :
                        parser'.Paths[route.Path][s] = parser.Paths[route.Path][s]
                 /\ \A p \in DOMAIN parser.Paths \ {route.Path} :
                        parser'.Paths[p] = parser.Paths[p]

C9_DuplicateRoute == [][\A op \in RouteOps : C9_InsertExisting(op)]_vars

\* a non-strict run in which a later declaration has replaced an earlier one
\* and the warning was written
C9_Witness ==
    /\ ~parser.Strict
    /\ Len(debug) > 0
    /\ \E o \in DocumentOps : o.op.decl >= 2

(***************************************************************************)
(* Type resolution: declarations whose comments name types of the          *)
(* analysed packages, as the handler files write them.                     *)
(***************************************************************************)
TypeNames ==
    {<<"b", ".", "Item">>, <<"a_b", ".", "Item">>, <<"c", ".", "Item">>,
     <<"c", ".", "Node">>, <<"c", ".", "Ping">>, <<"c", ".", "MyInt">>,
     <<"c", ".", "Missing">>}

TypeOps == {[ID |-> "", routes |-> <<>>, types |-> <<n>>] : n \in TypeNames}

NextTypes ==
    \/ GinSwaggerBegin
    \/ \E op \in TypeOps : ParseDecl(op)
    \/ GinSwaggerEnd

SpecTypes == Init /\ [][NextTypes]_vars

\* the definitions key a recorded reference URL names
RefKey(i) == LastPart(parser.toBeRenamedRefURLs[i], "/")

\* the rename pass of the first file has run, and the run goes on
Renamed == pc = "idle" /\ nfiles = 1

\* the types of the universe that refer to themselves
Cyclic == {"I3", "Node", "Ping"}

(***************************************************************************)
(* C2: when types of different packages have the same display name, then   *)
(* after renameRefSchemas every registered type has a definitions entry    *)
(* of its own and every reference issued for a type names the key that     *)
(* holds that type's schema.  (Stated for the runs that leave the type of  *)
(* package a_b alone, whose renamed key coincides with that of a/b.)       *)
(***************************************************************************)
C2_CollisionRefs ==
    (/\ Renamed
     /\ DOMAIN parser.toBeRenamedSchemas # {}
     /\ "I2" \notin DOMAIN parser.outputSchemas) =>
        /\ \A t \in DOMAIN parser.outputSchemas :
               \E k \in DOMAIN parser.Definitions : parser.Definitions[k].of = t
        /\ \A i \in DOMAIN parser.toBeRenamedRefURLs :
               /\ RefKey(i) \in DOMAIN parser.Definitions
               /\ parser.Definitions[RefKey(i)].of = parser.issuedFor[i]

(***************************************************************************)
(* C3: after the rename pass every type registered through                 *)
(* getRefTypeSchema has a definitions key of its own.                      *)
(***************************************************************************)
C3_OwnKey ==
    Renamed =>
        \A t \in DOMAIN parser.outputSchemas :
            \E k \in DOMAIN parser.Definitions : parser.Definitions[k].of = t

(***************************************************************************)
(* C4: resolving a self-referential struct type as a reference ends        *)
(* without a recursion error and returns a reference whose definitions     *)
(* key holds the full object schema of that type.                          *)
(***************************************************************************)
C4_SelfReference ==
    /\ err # <<"ParseComment error", ErrRecursiveParseStruct>>
    /\ err # <<"ParseComment error", ErrNilSchema>>
    /\ Renamed =>
          \A i \in DOMAIN schemas :
              schemas[i].of \in Cyclic =>
                  /\ parser.nodes[schemas[i].s].ref # 0
                  /\ RefKey(parser.nodes[schemas[i].s].ref) \in DOMAIN parser.Definitions
                  /\ parser.Definitions[RefKey(parser.nodes[schemas[i].s].ref)].of = schemas[i].of
                  /\ parser.Definitions[RefKey(parser.nodes[schemas[i].s].ref)].s.type = OBJECT
                  /\ DOMAIN parser.Definitions[RefKey(parser.nodes[schemas[i].s].ref)].s.props # {}

\* an earlier declaration of the run has resolved type t
C5_Resolved(t) == \E i \in DOMAIN schemas : schemas[i].of = t

(***************************************************************************)
(* C5: resolving a type that an earlier declaration of the run has         *)
(* resolved is a cache hit: no Schema object is built for it, the cached   *)
(* one stays in parsedSchemas.                                             *)
(***************************************************************************)
C5_CacheHit ==
    [][\A op \in TypeOps :
          (ParseDecl(op) /\ C5_Resolved(FindTypeSpec(op.types[1], HandlerFile))) =>
              /\ Len(parser'.heap) = Len(parser.heap)
              /\ parser'.parsedSchemas = parser.parsedSchemas]_vars

(***************************************************************************)
(* parseStructField on its own: the fields of a struct under analysis are  *)
(* drawn from FieldInputs and handed to parseStructField one after the     *)
(* other; schemas records each field with the properties it produced.      *)
(***************************************************************************)
MaxFields == 1

FieldGoTypes == {"int", "float64", "bool", "string"}

FieldJSONTags ==
    {<<>>, <<"n">>, <<"n", ",", "string">>, <<",", "string">>,
     <<"n", ",", "omitempty">>, <<"n", ",", "omitempty", ",", "string">>}

FieldExamples == {"", "7", "1.5", "true", "abc"}

FieldDefaults == {"", "7"}

FieldSwaggerTypes == {<<>>, <<INTEGER>>}

FieldInputs ==
    {Tagged(<< <<"N">> >>, Ident(<<t>>),
            [NoTag EXCEPT !.json = j, !.example = e, !.default = d, !.swaggertype = w]) :
        t \in FieldGoTypes, j \in FieldJSONTags, e \in FieldExamples,
        d \in FieldDefaults, w \in FieldSwaggerTypes}
    \cup {Field(<< <<"N">> >>, Ident(<<t>>)) : t \in FieldGoTypes}

InitField ==
    /\ parser \in {New(strict) : strict \in BOOLEAN}
    /\ pc = "field"
    /\ nfiles = 0
    /\ ndecls = 0
    /\ err = <<>>
    /\ debug = <<>>
    /\ schemas = <<>>

ParseStructFieldDone(field, r) ==
    /\ parser' = r.P
    /\ schemas' = Append(schemas, [of |-> field, s |-> r.props, err |-> r.err])
    /\ UNCHANGED <<pc, nfiles, ndecls, err, debug>>

ParseStructField(field) ==
    /\ pc = "field"
    /\ Len(schemas) < MaxFields
    /\ ParseStructFieldDone(field, parseStructField(parser, HandlerFile, field))

NextField == \E field \in FieldInputs : ParseStructField(field)

SpecField == InitField /\ [][NextField]_vars

\* the schema kind of a field: what its swaggertype tag names, else what
\* its Go type maps to
C10_Kind(field) ==
    IF field.hasTag /\ field.tag.swaggertype # <<>> THEN field.tag.swaggertype[1]
    ELSE CASE field.type.name = <<"int">>     -> INTEGER
           [] field.type.name = <<"float64">> -> NUMBER
           [] field.type.name = <<"bool">>    -> BOOLEANTYPE
           [] OTHER                           -> STRINGTYPE

\* the json tag has the option "string" after the name
C10_HasStringOption(field) ==
    /\ field.hasTag
    /\ \E i \in 2..Len(field.tag.json) :
           field.tag.json[i] = "string" /\ field.tag.json[i - 1] = ","

C10_Zero(kind) == IF kind = BOOLEANTYPE THEN "false" ELSE "0"

\* the field was emitted: parseStructField returned a property for it
C10_Emitted(i) == schemas[i].err = "" /\ DOMAIN schemas[i].s # {}

C10_Case(i) ==
    /\ C10_Kind(schemas[i].of) \in {INTEGER, NUMBER, BOOLEANTYPE}
    /\ C10_HasStringOption(schemas[i].of)
    /\ C10_Emitted(i)

(***************************************************************************)
(* C10: an emitted field of integer, number or boolean kind whose json tag *)
(* has the ",string" option has schema type string; its example is the     *)
(* zero value of the kind as a string when the example tag is empty, and   *)
(* the text of the example tag otherwise.                                  *)
(***************************************************************************)
C10_StringOption ==
    \A i \in DOMAIN schemas :
        C10_Case(i) =>
            \A n \in DOMAIN schemas[i].s :
                /\ schemas[i].s[n].type = STRINGTYPE
                /\ schemas[i].s[n].example =
                       IF schemas[i].of.tag.example = ""
                       THEN Val(STRINGTYPE, C10_Zero(C10_Kind(schemas[i].of)))
                       ELSE Val(STRINGTYPE, schemas[i].of.tag.example)

\* Scenario D has happened: an integer field with ",string" and no example
\* was emitted as a string with example "0"
C10_Witness ==
    \E i \in DOMAIN schemas :
        /\ C10_Case(i)
        /\ C10_Kind(schemas[i].of) = INTEGER
        /\ schemas[i].of.tag.example = ""
        /\ \E n \in DOMAIN schemas[i].s :
               schemas[i].s[n].example = Val(STRINGTYPE, "0")

(***************************************************************************)
(* The comments of a gin handler (GetGinComments).  A comment line is the  *)
(* sequence of its words, the text between single spaces; a word is a      *)
(* string.  A function description is [Name, PackageName, Comments, Exprs] *)
(* and a call expression [Receiver, Name, Args] with the arguments         *)
(* [Name, Type, Value]; a Type is the sequence of its parts between "/".   *)
(***************************************************************************)
GinContext == "*github.com/gin-gonic/gin.Context"

\* the words of the analysed comments in byte order, as sort.Strings
\* compares them (a space is below every character of a word)
WordOrder ==
    <<"\"&node\"", "\"ID\"", "\"id\"", "\"idx\"", "&node", "*c.Node", "//", "/a", "/a/:id", "/a/{id}", "/b", "/c",
      "200", "400", "@Accept", "@Description", "@Failure", "@Param", "@Params", "@Router", "@Success",
      "@Summary", "GET", "H", "POST", "[GET]", "[POST]", "[get]", "[post]", "api.H",
      "body", "c.Node", "c.Ping", "code", "false", "get", "id", "idx", "int", "json", "models.Err", "models.Resp", "path",
      "post", "query", "string", "true", "xml", "{object}">>

WordByte(w) == IF w \in Range(WordOrder) THEN IndexOf(WordOrder, w) ELSE 0

RECURSIVE LessLine(_, _)
LessLine(a, b) ==
    IF b = <<>> THEN FALSE
    ELSE IF a = <<>> THEN TRUE
    ELSE IF WordByte(Head(a)) # WordByte(Head(b)) THEN WordByte(Head(a)) < WordByte(Head(b))
    ELSE LessLine(Tail(a), Tail(b))

RECURSIVE InsertLine(_, _)
InsertLine(sorted, x) ==
    IF sorted = <<>> THEN <<x>>
    ELSE IF LessLine(x, Head(sorted)) THEN <<x>> \o sorted
    ELSE <<Head(sorted)>> \o InsertLine(Tail(sorted), x)

\* sort.Strings(results)
RECURSIVE SortLines(_)
SortLines(lines) ==
    IF lines = <<>> THEN <<>> ELSE InsertLine(SortLines(Tail(lines)), Head(lines))

\* what may follow a word inside a longer word of the analysed comments
WordSuffixes == {"", "s", "x"}

\* strings.HasPrefix(w, p) for two words
HasWordPrefix(w, p) == \E x \in WordSuffixes : w = p \o x

\* strings.HasPrefix(line, p) for a line and a text p that ends inside a word
HasPrefix(line, p) ==
    /\ Len(line) >= Len(p)
    /\ \A i \in 1..(Len(p) - 1) : line[i] = p[i]
    /\ p # <<>> => HasWordPrefix(line[Len(p)], p[Len(p)])

\* the location words of commentParamRegExp
ParamLocations == {"query", "path", "header", "body", "formData"}

MimeTypes ==
    {"json-api", "json-stream", "xml", "plain", "html", "mpfd",
     "x-www-form-urlencoded", "json", "octet-stream", "png", "jpeg", "gif"}

\* commentSummaryRegExp: "@Summary (.*)"
MatchSummary(line) == \E i \in 1..(Len(line) - 1) : line[i] = "@Summary"

\* commentDiscriptionRegExp: "@Description (.*)"
MatchDescription(line) == \E i \in 1..(Len(line) - 1) : line[i] = "@Description"

\* commentParamRegExp: "@Params (.*) (query|path|header|body|formData) (.*) (true|false) (.*)"
MatchParam(line) ==
    \E i, j, k \in DOMAIN line :
        /\ line[i] = "@Params"
        /\ j >= i + 2 /\ line[j] \in ParamLocations
        /\ k >= j + 2 /\ line[k] \in {"true", "false"}
        /\ k < Len(line)

\* commentResponseRegExp: "@(Success|Failure|Response)"
MatchResponse(line) ==
    \E i \in DOMAIN line, w \in {"@Success", "@Failure", "@Response"} :
        HasWordPrefix(line[i], w)

\* commentHeaderRegExp: "@Header"
MatchHeader(line) == \E i \in DOMAIN line : HasWordPrefix(line[i], "@Header")

\* commentMimeRegExp: "@(Accept|Produce) (json-api|...|gif)"
MatchMime(line) ==
    \E i \in 1..(Len(line) - 1) :
        line[i] \in {"@Accept", "@Produce"} /\ line[i + 1] \in MimeTypes

\* commentRouterRegExp: "@Router (.*) (.*) (.*)"
MatchRouter(line) == \E i \in DOMAIN line : line[i] = "@Router" /\ Len(line) >= i + 3

NewGinSwagger(funcDesc) ==
    [desc |-> funcDesc, summaries |-> <<>>, descriptions |-> <<>>, params |-> <<>>,
     failures |-> <<>>, headers |-> <<>>, accept |-> <<>>, produce |-> <<>>,
     success |-> <<>>, response |-> <<>>, router |-> <<>>, others |-> <<>>]

\* one turn of the loop of parseComments
parseComment(d, comment) ==
    IF MatchSummary(comment) THEN [d EXCEPT !.summaries = Append(@, comment)]
    ELSE IF MatchDescription(comment) THEN [d EXCEPT !.descriptions = Append(@, comment)]
    ELSE IF MatchParam(comment) THEN [d EXCEPT !.params = Append(@, comment)]
    ELSE IF MatchResponse(comment)
    THEN IF HasPrefix(comment, <<"//", "@Success">>) THEN [d EXCEPT !.success = comment]
         ELSE IF HasPrefix(comment, <<"//", "@Failure">>)
         THEN [d EXCEPT !.failures = Append(@, comment)]
         ELSE IF HasPrefix(comment, <<"//", "@Response">>) THEN [d EXCEPT !.response = comment]
         ELSE [d EXCEPT !.others = Append(@, comment)]
    ELSE IF MatchHeader(comment) THEN [d EXCEPT !.headers = Append(@, comment)]
    ELSE IF MatchMime(comment)
    THEN IF HasPrefix(comment, <<"//", "@Accept">>) THEN [d EXCEPT !.accept = comment]
         ELSE IF HasPrefix(comment, <<"//", "@Produce">>) THEN [d EXCEPT !.produce = comment]
         ELSE d
    ELSE IF MatchRouter(comment) THEN [d EXCEPT !.router = comment]
    ELSE [d EXCEPT !.others = Append(@, comment)]

RECURSIVE parseCommentsFrom(_, _)
parseCommentsFrom(d, i) ==
    IF i > Len(d.desc.Comments) THEN d
    ELSE parseCommentsFrom(parseComment(d, d.desc.Comments[i]), i + 1)

parseComments(d) == parseCommentsFrom(d, 1)

appendParam(params, p, source) ==
    IF \E i \in DOMAIN params : HasPrefix(params[i], p) THEN params
    ELSE Append(params, source)

\* the names the analysed handlers read
ParamNames == {"id", "idx"}

Quote(text) == "\"" \o text \o "\""

\* strings.Trim(text, "\"")
TrimQuotes(text) ==
    IF \E n \in ParamNames : text = Quote(n)
    THEN CHOOSE n \in ParamNames : text = Quote(n)
    ELSE text

\* the last part of a type between "/", or the whole type of argument
\* other when there is no "/"; an argument the call does not have panics
ArgType(args, split, other) ==
    IF Len(args[split].Type) <= 1
    THEN IF other > Len(args) THEN [panic |-> TRUE, type |-> ""]
         ELSE [panic |-> FALSE, type |-> args[other].Type[1]]
    ELSE [panic |-> FALSE, type |-> args[split].Type[Len(args[split].Type)]]

Panicked(d) == [d EXCEPT !.panic = TRUE]

\* the response switch without the test of the success slot: the last call
\* with status 200 would win
generateResponse_Overwrite(d, callExpr) ==
    IF callExpr.Receiver = GinContext /\ callExpr.Name \in {"JSON", "JSONP"}
    THEN IF Len(callExpr.Args) < 2 THEN Panicked(d)
         ELSE IF callExpr.Args[1].Name = "http.StatusOK" \/ callExpr.Args[1].Value = "200"
         THEN [d EXCEPT !.success = <<"//", "@Success", callExpr.Args[1].Value, "{object}",
                                       ArgType(callExpr.Args, 2, 2).type>>]
         ELSE [d EXCEPT !.failures =
                   Append(@, <<"//", "@Failure", callExpr.Args[1].Value, "{object}",
                               ArgType(callExpr.Args, 2, 2).type>>)]
    ELSE IF callExpr.Receiver = GinContext /\ callExpr.Name \in {"XML", "YAML", "ProtoBuf"}
    THEN [d EXCEPT !.log = Append(@, <<"[WARNING] not support generate response",
                                       callExpr.Name>>)]
    ELSE d

\* the response switch of one call expression
generateResponse(d, callExpr) ==
    IF callExpr.Receiver = GinContext /\ callExpr.Name \in {"JSON", "JSONP"}
    THEN IF Len(callExpr.Args) < 2 THEN Panicked(d)
         ELSE IF callExpr.Args[1].Name = "http.StatusOK" \/ callExpr.Args[1].Value = "200"
         THEN IF d.success # <<>> THEN d
              ELSE [d EXCEPT !.success = <<"//", "@Success", callExpr.Args[1].Value, "{object}",
                                            ArgType(callExpr.Args, 2, 2).type>>]
         ELSE [d EXCEPT !.failures =
                   Append(@, <<"//", "@Failure", callExpr.Args[1].Value, "{object}",
                               ArgType(callExpr.Args, 2, 2).type>>)]
    ELSE IF callExpr.Receiver = GinContext /\ callExpr.Name \in {"XML", "YAML", "ProtoBuf"}
    THEN [d EXCEPT !.log = Append(@, <<"[WARNING] not support generate response",
                                       callExpr.Name>>)]
    ELSE d

\* the text of an inferred parameter after "// @Param <name>"
ParamSource(callExpr, argName) ==
    CASE callExpr.Name \in {"Query"} ->
            <<"query", "string", "false", callExpr.Args[1].Value>>
      [] callExpr.Name \in {"QueryArray", "GetQueryArray"} ->
            <<"query", "[]string", "false", callExpr.Args[1].Value>>
      [] callExpr.Name \in {"QueryMap", "GetQuery", "GetQueryMap"} ->
            <<"query", "object", "false", callExpr.Args[1].Value>>
      [] callExpr.Name = "DefaultQuery" ->
            <<"query", "object", "false", callExpr.Args[1].Value,
              "default(" \o callExpr.Args[2].Value \o ")">>
      [] callExpr.Name = "ShouldBindQuery" ->
            <<"query", ArgType(callExpr.Args, 1, 2).type, "false", Quote(argName)>>
      [] callExpr.Name = "Param" ->
            <<"path", ArgType(callExpr.Args, 1, 1).type, "true", Quote(argName)>>
      [] callExpr.Name = "ShouldBindJSON" ->
            <<"body", ArgType(callExpr.Args, 1, 2).type, "true", Quote(argName)>>

ParamSelectors ==
    {"Query", "QueryArray", "QueryMap", "DefaultQuery", "GetQuery", "GetQueryArray",
     "GetQueryMap", "ShouldBindQuery", "Param", "ShouldBindJSON"}

\* the arguments the parameter switch reads are there
ParamPanics(callExpr) ==
    \/ Len(callExpr.Args) < 1
    \/ callExpr.Name = "DefaultQuery" /\ Len(callExpr.Args) < 2
    \/ callExpr.Name \in {"ShouldBindQuery", "ShouldBindJSON"}
           /\ ArgType(callExpr.Args, 1, 2).panic

\* the parameter switch of one call expression
generateParam(d, callExpr) ==
    IF d.panic THEN d
    ELSE IF callExpr.Receiver = GinContext /\ callExpr.Name \in ParamSelectors
    THEN IF ParamPanics(callExpr) THEN Panicked(d)
         ELSE [d EXCEPT !.params =
                   appendParam(@, <<"//", "@Param", TrimQuotes(callExpr.Args[1].Name)>>,
                               <<"//", "@Param", TrimQuotes(callExpr.Args[1].Name)>>
                                   \o ParamSource(callExpr, TrimQuotes(callExpr.Args[1].Name)))]
    ELSE d

\* "continue" of the response switch: a second 200 answer skips the
\* parameter switch of its call, which has no case for JSON and JSONP
RECURSIVE generateExprsFrom(_, _)
generateExprsFrom(d, i) ==
    IF d.panic \/ i > Len(d.desc.Exprs) THEN d
    ELSE generateExprsFrom(
             generateParam(generateResponse(d, d.desc.Exprs[i]), d.desc.Exprs[i]), i + 1)

\* the paths of the analysed routes and route annotations, with what
\* commentPathParamRegExp finds in them
PathParamsOf(path) ==
    CASE path \in {"/a/:id", "/a/{id}"} -> <<"id">>
      [] OTHER -> <<>>

\* parseQueryPathParams(desc.router): the placeholders of the whole line
RECURSIVE parseQueryPathParams(_)
parseQueryPathParams(line) ==
    IF line = <<>> THEN <<>>
    ELSE PathParamsOf(Head(line)) \o parseQueryPathParams(Tail(line))

\* commentPathParamRegExp.ReplaceAllStringFunc(info.Path, ...): ":id" and
\* "*id" become "{id}"
BracePath(path) == IF path = "/a/:id" THEN "/a/{id}" ELSE path

\* strings.ContainsAny(swaggerFormat, pathFormat): the two texts share a
\* character; a comment holds "/" and so does a gin path, which begins with it
ContainsAny(router, path) ==
    /\ \E i \in DOMAIN router : router[i] \in {"//", "/*"}
    /\ path \in {"/a", "/a/:id", "/b"}

\* strings.HasSuffix(key, desc.PackageName), a key being the parts of the
\* handler's name: the import path up to the package name, then the rest
HasSuffix(key, packageName) == key # <<>> /\ key[Len(key)] = packageName

\* the loop over routeInfos, visiting the keys in the given order; pathParams
\* is the map the function declares and never writes
RECURSIVE generateRouter(_, _, _, _)
generateRouter(d, routeInfos, order, i) ==
    IF i > Len(order) THEN d
    ELSE IF ~HasSuffix(order[i], d.desc.PackageName)
    THEN generateRouter(d, routeInfos, order, i + 1)
    ELSE IF d.router # <<>>
    THEN IF ~ContainsAny(d.router, routeInfos[order[i]].Path)
         THEN [d EXCEPT !.log = Append(@, <<"[ERROR] swagger comment is not match gin path",
                                            d.router, routeInfos[order[i]].Path>>)]
         ELSE IF Len(parseQueryPathParams(d.router)) # 0
         THEN [d EXCEPT !.log = Append(@, <<"[ERROR] swagger comment's params is not match gin path",
                                            d.router, routeInfos[order[i]].Path>>)]
         ELSE generateRouter(d, routeInfos, order, i + 1)
    ELSE generateRouter(
             [d EXCEPT !.router = <<"//", "@Router", BracePath(routeInfos[order[i]].Path),
                                    "[" \o routeInfos[order[i]].Method \o "]",
                                    d.desc.PackageName>>],
             routeInfos, order, i + 1)

generateSummary(d) ==
    IF \E i \in DOMAIN d.summaries : d.summaries[i] = <<"//", "@Summary", d.desc.Name>>
    THEN d
    ELSE [d EXCEPT !.summaries = << <<"//", "@Summary", d.desc.Name>> >> \o @]

generateRouterAfter(d, routeInfos, order) ==
    IF d.panic THEN d ELSE generateRouter(d, routeInfos, order, 1)

generateComments(d, routeInfos, order) ==
    generateRouterAfter(generateExprsFrom(generateSummary(d), 1), routeInfos, order)

Slot(line) == IF line = <<>> THEN <<>> ELSE <<line>>

GetGinCommentsOf(d) ==
    [results |-> SortLines(d.summaries \o d.descriptions \o d.params \o d.failures
                               \o d.headers \o d.others \o Slot(d.accept) \o Slot(d.produce)
                               \o Slot(d.success) \o Slot(d.response) \o Slot(d.router)),
     log     |-> d.log,
     panic   |-> d.panic]

\* order is the order in which "range routeInfos" visits the keys
GetGinComments(funcDesc, routeInfos, order) ==
    GetGinCommentsOf(
        generateComments(
            parseComments(NewGinSwagger(funcDesc) @@ [log |-> <<>>, panic |-> FALSE]),
            routeInfos, order))

\* the orders in which a map with these keys can be visited
Orders(keys) ==
    {order \in [1..Cardinality(keys) -> keys] :
        \A i, j \in 1..Cardinality(keys) : order[i] = order[j] => i = j}

(***************************************************************************)
(* ParseFileAST and GinSwagger over the handlers of a file: the comments   *)
(* of a handler are replaced by what GetGinComments returns, and the       *)
(* declaration loop of GinSwagger parses those.  schemas records for each  *)
(* handler what GetGinComments was given and what it returned.             *)
(***************************************************************************)
MaxFuncs == 2

HTTPMethods == {"get", "post", "GET", "POST"}

\* the method of "[method]"
Unbracket(word) ==
    IF \E m \in HTTPMethods : word = "[" \o m \o "]"
    THEN CHOOSE m \in HTTPMethods : word = "[" \o m \o "]"
    ELSE word

\* a type name of a comment as getTypeSchema takes it
TypeNameOf(word) ==
    IF word = "c.Node" THEN <<"c", ".", "Node">>
    ELSE IF word = "c.Ping" THEN <<"c", ".", "Ping">>
    ELSE <<word>>

\* the routes Operation.ParseComment reads from the "@Router path [method]" lines
RECURSIVE RouterProperties(_)
RouterProperties(lines) ==
    IF lines = <<>> THEN <<>>
    ELSE (IF Len(Head(lines)) >= 4 /\ Head(lines)[2] = "@Router"
          THEN <<[Path |-> Head(lines)[3], HTTPMethod |-> Unbracket(Head(lines)[4])]>>
          ELSE <<>>) \o RouterProperties(Tail(lines))

\* the types Operation.ParseComment resolves: the body parameters and the
\* {object} responses
RECURSIVE CommentTypes(_)
CommentTypes(lines) ==
    IF lines = <<>> THEN <<>>
    ELSE (IF Len(Head(lines)) >= 5 /\ Head(lines)[2] = "@Param" /\ Head(lines)[4] = "body"
          THEN <<TypeNameOf(Head(lines)[5])>>
          ELSE IF Len(Head(lines)) >= 5 /\ Head(lines)[2] \in {"@Success", "@Failure"}
                  /\ Head(lines)[4] = "{object}"
          THEN <<TypeNameOf(Head(lines)[5])>>
          ELSE <<>>) \o CommentTypes(Tail(lines))

Generated(funcDesc, routeInfos, g) ==
    [log |-> g.log,
     out |-> <<[k |-> "comments", of |-> [desc |-> funcDesc, routeInfos |-> routeInfos],
                s |-> g.results]>>]

ParseFuncDeclOp(op, g) == ParseDeclRoutes(ParseComment(parser, op), op, g)

ParseFuncDeclComments(funcDesc, routeInfos, g) ==
    IF g.panic
    THEN /\ pc' = "failed"
         /\ err' = <<"panic: runtime error: index out of range">>
         /\ debug' = debug \o g.log
         /\ UNCHANGED <<parser, schemas>>
    ELSE ParseFuncDeclOp([ID |-> "", routes |-> RouterProperties(g.results),
                          types |-> CommentTypes(g.results)],
                         Generated(funcDesc, routeInfos, g))

ParseFuncDecl(funcDesc, routeInfos, order) ==
    /\ pc = "parsing"
    /\ ndecls < MaxDecls
    /\ Cardinality({i \in DOMAIN schemas : schemas[i].k = "comments"}) < MaxFuncs
    /\ ndecls' = ndecls + 1
    /\ UNCHANGED nfiles
    /\ ParseFuncDeclComments(funcDesc, routeInfos,
                             GetGinComments(funcDesc, routeInfos, order))

\* the comment lines the analysed handlers are written with
ParamID   == <<"//", "@Param", "id", "path", "int", "true", "\"ID\"">>

ParamsID  == <<"//", "@Params", "id", "path", "int", "true", "\"ID\"">>

RouterC   == <<"//", "@Router", "/c", "[post]">>

RouterCOf == <<"//", "@Router", "/c", "[post]", "api.H">>

FuncComments ==
    {<<>>, <<ParamID>>, <<ParamsID>>, <<RouterC>>, <<RouterCOf>>, <<ParamID, RouterC>>}

\* the calls the analysed handlers make on their *gin.Context
Call(name, args) == [Receiver |-> GinContext, Name |-> name, Args |-> args]

Literal(text) == [Name |-> Quote(text), Type |-> <<"string">>, Value |-> Quote(text)]

FuncExprs ==
    {<<>>,
     <<Call("Param", <<Literal("id")>>)>>,
     <<Call("Query", <<Literal("idx")>>), Call("Query", <<Literal("id")>>)>>,
     <<Call("JSON", <<[Name |-> "http.StatusOK", Type |-> <<"int">>, Value |-> "200"],
                      [Name |-> "node", Type |-> <<"github.com", "x", "c.Node">>,
                       Value |-> ""]>>)>>,
     <<Call("ShouldBindJSON", <<[Name |-> "&node", Type |-> <<"*c.Node">>, Value |-> ""]>>)>>}

\* handlers written with annotations that share a slot, and with an
\* annotation indented by a second space
AcceptJSON   == <<"//", "@Accept", "json">>

AcceptXML    == <<"//", "@Accept", "xml">>

AcceptIndent == <<"//", "", "@Accept", "json">>

Remark       == <<"//", "H", "get">>

SlotComments ==
    {<<AcceptJSON, AcceptXML>>, <<RouterCOf, Remark>>, <<AcceptIndent, Remark>>}

FuncDescs ==
    {[Name |-> "H", PackageName |-> "api.H", Comments |-> c, Exprs |-> e] :
        c \in FuncComments, e \in FuncExprs}
    \cup {[Name |-> "H", PackageName |-> "api.H", Comments |-> c, Exprs |-> <<>>] :
              c \in SlotComments}

\* the route tables: none, one route of the handler, and a second handler
\* H of another package api
RouteOfA == <<"a/", "api.H">> :> [Path |-> "/a/:id", Method |-> "GET"]

RouteOfB == <<"b/", "api.H">> :> [Path |-> "/b", Method |-> "POST"]

RouteTables == {NoMap, RouteOfA, RouteOfA @@ RouteOfB}

NextComments ==
    \/ GinSwaggerBegin
    \/ \E funcDesc \in FuncDescs, routeInfos \in RouteTables :
           \E order \in Orders(DOMAIN routeInfos) :
               ParseFuncDecl(funcDesc, routeInfos, order)
    \/ GinSwaggerEnd

SpecComments == Init /\ [][NextComments]_vars

\* the handlers GetGinComments has answered for
Commented == {i \in DOMAIN schemas : schemas[i].k = "comments"}

\* a line is a parameter annotation of the swagger form for name n
C6_IsParamFor(line, n) == Len(line) >= 3 /\ line[2] = "@Param" /\ line[3] = n

C6_ParamLines(lines, n) == {k \in DOMAIN lines : C6_IsParamFor(lines[k], n)}

(***************************************************************************)
(* C6: when the comments of a handler hold an explicit "@Param n ..."      *)
(* annotation, the parameter lines for n in the output of GetGinComments   *)
(* are exactly the explicit ones: no line inferred from a call is added.   *)
(***************************************************************************)
C6_ExplicitParam ==
    \A i \in Commented, n \in ParamNames :
        C6_ParamLines(schemas[i].of.desc.Comments, n) # {} =>
            /\ Cardinality(C6_ParamLines(schemas[i].s, n))
                   = Cardinality(C6_ParamLines(schemas[i].of.desc.Comments, n))
            /\ \A k \in C6_ParamLines(schemas[i].s, n) :
                   schemas[i].s[k] \in Range(schemas[i].of.desc.Comments)

(***************************************************************************)
(* C7: two handlers given with the same description and the same route     *)
(* table get the same comment lines from GetGinComments.                   *)
(***************************************************************************)
C7_SameOutput ==
    \A i, j \in Commented :
        schemas[i].of = schemas[j].of => schemas[i].s = schemas[j].s

\* a route of the handler's own comments that no entry of the route table
\* has, by path shape and method
C8_Unmatched(i) ==
    {k \in DOMAIN RouterProperties(schemas[i].of.desc.Comments) :
        \A key \in DOMAIN schemas[i].of.routeInfos :
            \/ BracePath(schemas[i].of.routeInfos[key].Path)
                   # RouterProperties(schemas[i].of.desc.Comments)[k].Path
            \/ schemas[i].of.routeInfos[key].Method
                   # ToUpper(RouterProperties(schemas[i].of.desc.Comments)[k].HTTPMethod)}

\* the log has a line about the route annotation of handler i
C8_Warned(i) ==
    \E l \in DOMAIN debug, w \in DOMAIN schemas[i].of.desc.Comments :
        Len(debug[l]) >= 2 /\ debug[l][2] = schemas[i].of.desc.Comments[w]

(***************************************************************************)
(* C8: when a handler declares a route that no entry of the route table    *)
(* matches, GinSwagger does not return nil in strict mode; in non-strict   *)
(* mode, once it has returned, a warning about the route is in the log and *)
(* the document has the operation under the declared path and method.      *)
(***************************************************************************)
C8_RouteMismatch ==
    \A i \in Commented :
        \A k \in C8_Unmatched(i) :
            /\ parser.Strict => ~Returned
            /\ (~parser.Strict /\ Returned) =>
                   /\ C8_Warned(i)
                   /\ RouterProperties(schemas[i].of.desc.Comments)[k].Path \in DOMAIN parser.Paths
                   /\ hasRouteMethodOp(
                          parser.Paths[RouterProperties(schemas[i].of.desc.Comments)[k].Path],
                          RouterProperties(schemas[i].of.desc.Comments)[k].HTTPMethod)

\* the buckets and slots of the comment collector, the others aside
C11_Recognized ==
    {"summaries", "descriptions", "params", "failures", "headers",
     "accept", "produce", "success", "response", "router"}

\* parseComments stores the line in no recognized bucket or slot
C11_Unstored(funcDesc, line) ==
    \A f \in C11_Recognized :
        parseComment(NewGinSwagger(funcDesc), line)[f] = NewGinSwagger(funcDesc)[f]

(***************************************************************************)
(* C11: every comment line of a handler that parseComments stores in no    *)
(* recognized bucket or slot is a line of the output of GetGinComments.    *)
(***************************************************************************)
C11_OthersKept ==
    \A i \in Commented :
        \A k \in DOMAIN schemas[i].of.desc.Comments :
            C11_Unstored(schemas[i].of.desc, schemas[i].of.desc.Comments[k]) =>
                schemas[i].of.desc.Comments[k] \in Range(schemas[i].s)

\* the single-valued slots
C12_Slots == {"accept", "produce", "success", "response", "router"}

\* the comments of the handler that parseComments takes for slot f, in order
C12_Of(funcDesc, f) ==
    {k \in DOMAIN funcDesc.Comments :
        parseComment(NewGinSwagger(funcDesc), funcDesc.Comments[k])[f] = funcDesc.Comments[k]}

(***************************************************************************)
(* C12: after parseComments, a single-valued slot for which the handler    *)
(* has one or more annotations holds the first of them in comment order.   *)
(***************************************************************************)
C12_FirstKept ==
    \A i \in Commented, f \in C12_Slots :
        \A k \in C12_Of(schemas[i].of.desc, f) :
            (\A j \in C12_Of(schemas[i].of.desc, f) : k <= j) =>
                parseComments(NewGinSwagger(schemas[i].of.desc))[f]
                    = schemas[i].of.desc.Comments[k]

\* renameRefSchemas has run in this run: a call of GinSwagger has returned nil
C13_PassRan == nfiles > 1 \/ (nfiles = 1 /\ pc = "idle")

(***************************************************************************)
(* C13: once the rename pass has run, no step of the run resolves a type,  *)
(* issues a reference or runs the pass again.                              *)
(***************************************************************************)
C13_RenameOnce ==
    [][C13_PassRan =>
          /\ parser'.toBeRenamedRefURLs = parser.toBeRenamedRefURLs
          /\ parser'.structStack = parser.structStack
          /\ ~(pc = "parsing" /\ pc' = "idle")]_vars

(***************************************************************************)
(* Type resolution over structs with embedded fields, function-typed       *)
(* fields and tagged fields of named types.                                *)
(***************************************************************************)
StructNames ==
    {<<"c", ".", "Emb">>, <<"c", ".", "Inner">>, <<"c", ".", "Outer">>,
     <<"c", ".", "List">>, <<"c", ".", "Cb">>, <<"c", ".", "Twice">>,
     <<"c", ".", "Tagd">>, <<"c", ".", "MyInt">>}

StructOps == {[ID |-> "", routes |-> <<>>, types |-> <<n>>] : n \in StructNames}

NextStructs ==
    \/ GinSwaggerBegin
    \/ \E op \in StructOps : ParseDecl(op)
    \/ GinSwaggerEnd

SpecStructs == Init /\ [][NextStructs]_vars

(***************************************************************************)
(* C14: the recursion marker ErrRecursiveParseStruct never reaches the     *)
(* caller of a top-level resolution, also for a struct that embeds a       *)
(* pointer to itself or a cycle through an embedded field or an alias: a   *)
(* top-level getTypeSchema, called as a reference (as ParseComment does)   *)
(* or not, ends with a schema or with a different error, and never         *)
(* dereferences the nil schema that comes with the marker.                 *)
(***************************************************************************)
C14_Marker == {ErrRecursiveParseStruct, ErrNilSchema}

C14_NoRecursionError ==
    /\ (pc = "failed" /\ Len(err) = 2) => err[2] \notin C14_Marker
    /\ (pc = "parsing" /\ parser.structStack = <<>>) =>
           \A n \in StructNames :
               getTypeSchema(parser, n, HandlerFile, FALSE).err \notin C14_Marker

(***************************************************************************)
(* C15: a struct field of function type (directly, inside an array, or     *)
(* through a named function type, at every occurrence) is left out of the  *)
(* struct's properties and gets no definitions entry, while the struct's   *)
(* other fields are emitted: the structs Cb and Twice are defined with the *)
(* single property id, and the function type Fn is no definition.          *)
(***************************************************************************)
C15_FuncStructs == {"Cb", "Twice"}

C15_FuncFieldsOmitted ==
    /\ <<"Fn">> \notin DOMAIN parser.Definitions
    /\ \A k \in DOMAIN parser.Definitions :
           parser.Definitions[k].of \in C15_FuncStructs =>
               DOMAIN parser.Definitions[k].s.props = {<<"i", "d">>}

(***************************************************************************)
(* Handlers that write JSON responses: calls with status 200 (as a literal *)
(* and as http.StatusOK), with status 400 and with a status that is no     *)
(* constant, with and without explicit response annotations.               *)
(***************************************************************************)
StatusArg(name, value) == [Name |-> name, Type |-> <<"int">>, Value |-> value]

ValueArg(name, type) == [Name |-> name, Type |-> <<"github.com", "x", type>>, Value |-> ""]

SuccessPing == <<"//", "@Success", "200", "{object}", "c.Ping">>

FailureNode == <<"//", "@Failure", "400", "{object}", "c.Node">>

ResponseComments == {<<>>, <<SuccessPing>>, <<FailureNode>>, <<FailureNode, SuccessPing>>}

ResponseExprs ==
    {<<Call("JSON", <<StatusArg("200", "200"), ValueArg("node", "c.Node")>>),
       Call("JSON", <<StatusArg("http.StatusOK", "200"), ValueArg("ping", "c.Ping")>>)>>,
     <<Call("JSON", <<StatusArg("400", "400"), ValueArg("ping", "c.Ping")>>),
       Call("JSONP", <<StatusArg("http.StatusOK", "200"), ValueArg("node", "c.Node")>>),
       Call("JSON", <<StatusArg("400", "400"), ValueArg("ping", "c.Ping")>>)>>,
     <<Call("JSON", <<StatusArg("code", ""), ValueArg("node", "c.Node")>>),
       Call("XML", <<StatusArg("200", "200"), ValueArg("node", "c.Node")>>)>>}

ResponseDescs ==
    {[Name |-> "H", PackageName |-> "api.H", Comments |-> c, Exprs |-> e] :
        c \in ResponseComments, e \in ResponseExprs}

NextResponses ==
    \/ GinSwaggerBegin
    \/ \E funcDesc \in ResponseDescs :
           \E order \in Orders(DOMAIN RouteOfA) : ParseFuncDecl(funcDesc, RouteOfA, order)
    \/ GinSwaggerEnd

SpecResponses == Init /\ [][NextResponses]_vars

\* the calls of a handler that write a JSON response, and those with status 200
C16_Calls(funcDesc) ==
    {k \in DOMAIN funcDesc.Exprs :
        funcDesc.Exprs[k].Receiver = GinContext /\ funcDesc.Exprs[k].Name \in {"JSON", "JSONP"}}

C16_IsOK(callExpr) == callExpr.Args[1].Name = "http.StatusOK" \/ callExpr.Args[1].Value = "200"

C16_OKCalls(funcDesc) == {k \in C16_Calls(funcDesc) : C16_IsOK(funcDesc.Exprs[k])}

C16_Line(tag, callExpr) ==
    <<"//", tag, callExpr.Args[1].Value, "{object}", callExpr.Args[2].Type[3]>>

C16_Lines(lines, tag) == {k \in DOMAIN lines : Len(lines[k]) >= 2 /\ lines[k][2] = tag}

\* the success line the handler must end with: the explicit one, else the
\* one of the first call with status 200, else none
C16_Success(funcDesc) ==
    IF parseComments(NewGinSwagger(funcDesc)).success # <<>>
    THEN {parseComments(NewGinSwagger(funcDesc)).success}
    ELSE {C16_Line("@Success", funcDesc.Exprs[k]) :
             k \in {j \in C16_OKCalls(funcDesc) : \A i \in C16_OKCalls(funcDesc) : j <= i}}

(***************************************************************************)
(* C16: over the Context.JSON / Context.JSONP calls of a handler in call   *)
(* order, a call with status http.StatusOK or 200 fills the success slot   *)
(* only while it is empty (an explicit @Success line or an earlier 200     *)
(* call wins) and adds nothing otherwise, and every call with another      *)
(* status appends exactly one failure line: the output holds the expected  *)
(* success line and no other, and one failure line per explicit @Failure   *)
(* line and per call with another status.                                  *)
(***************************************************************************)
C16_Responses ==
    \A i \in Commented :
        /\ {schemas[i].s[k] : k \in C16_Lines(schemas[i].s, "@Success")}
               = C16_Success(schemas[i].of.desc)
        /\ Cardinality(C16_Lines(schemas[i].s, "@Success"))
               = Cardinality(C16_Success(schemas[i].of.desc))
        /\ Cardinality(C16_Lines(schemas[i].s, "@Failure"))
               = Len(parseComments(NewGinSwagger(schemas[i].of.desc)).failures)
                 + Cardinality(C16_Calls(schemas[i].of.desc) \ C16_OKCalls(schemas[i].of.desc))
        /\ \A k \in C16_Calls(schemas[i].of.desc) \ C16_OKCalls(schemas[i].of.desc) :
               C16_Line("@Failure", schemas[i].of.desc.Exprs[k]) \in Range(schemas[i].s)

\* two calls with status 200 and no explicit annotation: the first call's
\* line is the success line of the output
C16_Witness ==
    \E i \in Commented :
        /\ schemas[i].of.desc.Comments = <<>>
        /\ Cardinality(C16_OKCalls(schemas[i].of.desc)) = 2
        /\ <<"//", "@Success", "200", "{object}", "c.Node">> \in Range(schemas[i].s)
        /\ Cardinality(C16_Lines(schemas[i].s, "@Success")) = 1

\* the router lines of a list of comment lines
C17_RouterLines(lines) == {k \in DOMAIN lines : Len(lines[k]) >= 2 /\ lines[k][2] = "@Router"}

\* a route annotation of the form "@Router <path> [<method>]"
C17_IsExplicit(line) ==
    Len(line) = 4 /\ line[2] = "@Router" /\ Unbracket(line[4]) # line[4]

\* the entries of the route table for the handler
C17_Entries(funcDesc, routeInfos) ==
    {key \in DOMAIN routeInfos : HasSuffix(key, funcDesc.PackageName)}

C17_Synthesized(funcDesc, info) ==
    <<"//", "@Router", BracePath(info.Path), "[" \o info.Method \o "]", funcDesc.PackageName>>

(***************************************************************************)
(* C17: a handler with an explicit route annotation of the form            *)
(* "@Router <path> [<method>]" ends with exactly that one router line and  *)
(* no synthesized one; a handler with no route annotation and an entry in  *)
(* the route table ends with exactly one router line, synthesized from an  *)
(* entry's method and its path with the placeholders rewritten to {name}.  *)
(***************************************************************************)
C17_OneRouter ==
    \A i \in Commented :
        /\ \A k \in DOMAIN schemas[i].of.desc.Comments :
               C17_IsExplicit(schemas[i].of.desc.Comments[k]) =>
                   /\ Cardinality(C17_RouterLines(schemas[i].s)) = 1
                   /\ \A l \in C17_RouterLines(schemas[i].s) :
                          schemas[i].s[l] = schemas[i].of.desc.Comments[k]
        /\ (/\ C17_RouterLines(schemas[i].of.desc.Comments) = {}
            /\ C17_Entries(schemas[i].of.desc, schemas[i].of.routeInfos) # {}) =>
               /\ Cardinality(C17_RouterLines(schemas[i].s)) = 1
               /\ \A l \in C17_RouterLines(schemas[i].s) :
                      \E key \in C17_Entries(schemas[i].of.desc, schemas[i].of.routeInfos) :
                          schemas[i].s[l]
                              = C17_Synthesized(schemas[i].of.desc, schemas[i].of.routeInfos[key])

(***************************************************************************)
(* C18: once a top-level resolution has returned, with a schema or with an *)
(* error, the in-progress stack structStack is empty: between the          *)
(* declarations of a file, and after the file, no type is on the stack.    *)
(***************************************************************************)
C18_StackUnwound == parser.structStack = <<>>

\* the schemas cached in parsedSchemas, by type
C19_Cached(P) == [t \in DOMAIN P.parsedSchemas |-> P.nodes[P.heap[P.parsedSchemas[t]].Schema]]

(***************************************************************************)
(* C19: emitting a struct field with its directives never changes a schema *)
(* that is cached in parsedSchemas: over the parse of a declaration, every *)
(* type cached before it has the same cached schema after it.              *)
(***************************************************************************)
C19_CacheFrame ==
    [][(pc = "parsing" /\ ndecls' = ndecls + 1) =>
           \A t \in DOMAIN parser.parsedSchemas :
               /\ t \in DOMAIN parser'.parsedSchemas
               /\ C19_Cached(parser')[t] = C19_Cached(parser)[t]]_vars

(***************************************************************************)
(* Struct fields with numeric and length bounds in their tags, over scalar *)
(* types, arrays and maps.                                                 *)
(***************************************************************************)
BoundedGoTypes ==
    {Ident(<<t>>) : t \in FieldGoTypes}
    \cup {ArrayType(Ident(<<t>>)) : t \in {"int", "string"}}
    \cup {MapType(Ident(<<t>>)) : t \in {"int", "string"}}

BoundedFields ==
    {Tagged(<< <<"N">> >>, t,
            [NoTag EXCEPT !.maximum = mx, !.minimum = mn, !.maxLength = xl, !.minLength = nl]) :
        t \in BoundedGoTypes, mx \in {"", "7"}, mn \in {"", "0"},
        xl \in {"", "7"}, nl \in {"", "0"}}

NextBounds == \E field \in BoundedFields : ParseStructField(field)

SpecBounds == InitField /\ [][NextBounds]_vars

\* the bounds a schema carries
C20_Numeric(sv) == sv.maximum # <<>> \/ sv.minimum # <<>> \/ sv.multipleOf # <<>>

C20_Length(sv) == sv.maxLength # <<>> \/ sv.minLength # <<>>

C20_Own(sv) ==
    /\ C20_Numeric(sv) => sv.type \in {INTEGER, NUMBER}
    /\ C20_Length(sv) => sv.type = STRINGTYPE

(***************************************************************************)
(* C20: in every emitted field schema, maximum / minimum / multipleOf are  *)
(* on a schema whose own kind is integer or number and maxLength /         *)
(* minLength on a schema whose own kind is string, for an array field on   *)
(* its item schema; a map of numbers or of strings carries none of them.   *)
(***************************************************************************)
C20_BoundsByKind ==
    \A i \in DOMAIN schemas :
        \A n \in DOMAIN schemas[i].s :
            /\ C20_Own(schemas[i].s[n])
            /\ schemas[i].s[n].items # 0 => C20_Own(parser.nodes[schemas[i].s[n].items])

(***************************************************************************)
(* Handlers that declare their route in the three-part form the collector  *)
(* stores, with and without a placeholder, against route tables with one   *)
(* entry for the handler.                                                  *)
(***************************************************************************)
RouterAIdOf == <<"//", "@Router", "/a/{id}", "[get]", "api.H">>

RouterAOf   == <<"//", "@Router", "/a", "[get]", "api.H">>

RouteOfPlain == <<"a/", "api.H">> :> [Path |-> "/a", Method |-> "GET"]

RouteCheckDescs ==
    {[Name |-> "H", PackageName |-> "api.H", Comments |-> <<c>>, Exprs |-> e] :
        c \in {RouterCOf, RouterAIdOf, RouterAOf},
        e \in {<<>>, <<Call("Param", <<Literal("id")>>)>>}}

NextRouteCheck ==
    \/ GinSwaggerBegin
    \/ \E funcDesc \in RouteCheckDescs, routeInfos \in {RouteOfA, RouteOfPlain} :
           \E order \in Orders(DOMAIN routeInfos) :
               ParseFuncDecl(funcDesc, routeInfos, order)
    \/ GinSwaggerEnd

SpecRouteCheck == Init /\ [][NextRouteCheck]_vars

\* the path shape: placeholders replaced by the wildcard
C21_Shape(path) == IF path \in {"/a/:id", "/a/{id}"} THEN "/a/@@" ELSE path

\* the path parameters the handler reads
C21_Captured(funcDesc) ==
    {TrimQuotes(funcDesc.Exprs[k].Args[1].Name) :
        k \in {j \in DOMAIN funcDesc.Exprs : funcDesc.Exprs[j].Name = "Param"}}

\* the declared route differs from the handler's entry of the route table
C21_Differs(funcDesc, info) ==
    \E k \in C17_RouterLines(funcDesc.Comments) :
        \/ C21_Shape(funcDesc.Comments[k][3]) # C21_Shape(info.Path)
        \/ Range(PathParamsOf(funcDesc.Comments[k][3])) # C21_Captured(funcDesc)

\* the route check of the handler wrote a report
C21_Reported(funcDesc, routeInfos) ==
    GetGinComments(funcDesc, routeInfos, CHOOSE order \in Orders(DOMAIN routeInfos) : TRUE).log
        # <<>>

(***************************************************************************)
(* C21: for a handler with a declared route and an entry in the route      *)
(* table, the route check reports a mismatch exactly when the path shapes  *)
(* differ or the placeholder names of the declared route are not the path  *)
(* parameters the handler reads.                                           *)
(***************************************************************************)
C21_RouteCheck ==
    \A i \in Commented :
        \A key \in C17_Entries(schemas[i].of.desc, schemas[i].of.routeInfos) :
            C21_Reported(schemas[i].of.desc, schemas[i].of.routeInfos)
                <=> C21_Differs(schemas[i].of.desc, schemas[i].of.routeInfos[key])

\* the calls of a handler that read a parameter, and the names they read
C22_Reads(funcDesc) ==
    {k \in DOMAIN funcDesc.Exprs :
        funcDesc.Exprs[k].Receiver = GinContext /\ funcDesc.Exprs[k].Name \in ParamSelectors}

C22_Names(funcDesc) ==
    {TrimQuotes(funcDesc.Exprs[k].Args[1].Name) : k \in C22_Reads(funcDesc)}

\* the handler is written without parameter annotations
C22_Unannotated(funcDesc) ==
    \A k \in DOMAIN funcDesc.Comments :
        Len(funcDesc.Comments[k]) >= 2 => funcDesc.Comments[k][2] \notin {"@Param", "@Params"}

(***************************************************************************)
(* C22: inferred parameters are matched by exact name: in a handler        *)
(* without parameter annotations every name read by a call has exactly one *)
(* parameter line in the output, in any call order, also when one name is  *)
(* a prefix of another (idx read before id).                               *)
(***************************************************************************)
C22_ExactName ==
    \A i \in Commented :
        C22_Unannotated(schemas[i].of.desc) =>
            \A n \in C22_Names(schemas[i].of.desc) :
                Cardinality(C6_ParamLines(schemas[i].s, n)) = 1

(***************************************************************************)
(* Handlers written with summary and description lines.                    *)
(***************************************************************************)
SummaryGet == <<"//", "@Summary", "get">>

SummaryH   == <<"//", "@Summary", "H">>

DescPost   == <<"//", "@Description", "post">>

DescGet    == <<"//", "@Description", "get">>

TextComments ==
    {<<>>, <<SummaryGet>>, <<SummaryH>>, <<SummaryGet, SummaryH>>, <<DescGet>>,
     <<DescGet, DescPost>>, <<DescPost, DescGet>>, <<SummaryGet, DescPost, DescGet>>}

TextDescs ==
    {[Name |-> "H", PackageName |-> "api.H", Comments |-> c, Exprs |-> <<>>] :
        c \in TextComments}

NextTexts ==
    \/ GinSwaggerBegin
    \/ \E funcDesc \in TextDescs, routeInfos \in {NoMap, RouteOfA} :
           \E order \in Orders(DOMAIN routeInfos) :
               ParseFuncDecl(funcDesc, routeInfos, order)
    \/ GinSwaggerEnd

SpecTexts == Init /\ [][NextTexts]_vars

\* the explicit summary lines of a handler
C23_Explicit(funcDesc) == {k \in DOMAIN funcDesc.Comments : MatchSummary(funcDesc.Comments[k])}

(***************************************************************************)
(* C23: the line "@Summary <function name>" is synthesized exactly when    *)
(* the handler has no explicit summary: without one it is the only summary *)
(* line of the output, and with explicit ones (of any text) the summary    *)
(* lines of the output are the explicit ones and no other.                 *)
(***************************************************************************)
C23_Summary ==
    \A i \in Commented :
        IF C23_Explicit(schemas[i].of.desc) = {}
        THEN /\ Cardinality(C16_Lines(schemas[i].s, "@Summary")) = 1
             /\ <<"//", "@Summary", schemas[i].of.desc.Name>> \in Range(schemas[i].s)
        ELSE /\ Cardinality(C16_Lines(schemas[i].s, "@Summary"))
                    = Cardinality(C23_Explicit(schemas[i].of.desc))
             /\ \A k \in C23_Explicit(schemas[i].of.desc) :
                    schemas[i].of.desc.Comments[k] \in Range(schemas[i].s)

\* the description lines of a list of lines, in their order
RECURSIVE C29_Descriptions(_)
C29_Descriptions(lines) ==
    IF lines = <<>> THEN <<>>
    ELSE (IF MatchDescription(Head(lines)) THEN <<Head(lines)>> ELSE <<>>)
             \o C29_Descriptions(Tail(lines))

(***************************************************************************)
(* C29: the @Description lines of a handler are emitted by GetGinComments  *)
(* in the relative order in which the author wrote them.                   *)
(***************************************************************************)
C29_DescriptionOrder ==
    \A i \in Commented :
        C29_Descriptions(schemas[i].s) = C29_Descriptions(schemas[i].of.desc.Comments)

(***************************************************************************)
(* Type resolution over structs with several names in one declaration,     *)
(* ignored and unexported fields, required fields and embedded structs,    *)
(* under each property naming strategy.                                    *)
(***************************************************************************)
FieldStructNames ==
    {<<"c", ".", "Pair">>, <<"c", ".", "Solo">>, <<"c", ".", "Base">>,
     <<"c", ".", "Derived">>, <<"c", ".", "Shadow">>}

FieldStructOps == {[ID |-> "", routes |-> <<>>, types |-> <<n>>] : n \in FieldStructNames}

InitNames ==
    /\ parser \in {[New(strict) EXCEPT !.PropNamingStrategy = s] :
                      strict \in BOOLEAN, s \in {CamelCase, SnakeCase, PascalCase}}
    /\ pc = "idle"
    /\ nfiles = 0
    /\ ndecls = 0
    /\ err = <<>>
    /\ debug = <<>>
    /\ schemas = <<>>

NextNames ==
    \/ GinSwaggerBegin
    \/ \E op \in FieldStructOps : ParseDecl(op)
    \/ GinSwaggerEnd

SpecNames == InitNames /\ [][NextNames]_vars

\* the field is left out by its tags
C24_Ignored(field) ==
    field.hasTag /\ (EqualFoldTrue(field.tag.swaggerignore) \/ JSONName(field.tag.json) = <<"-">>)

\* the key of a declared name: the json name if one is given, else the name
\* under the naming strategy
C24_Key(field, goName) ==
    IF field.hasTag /\ JSONName(field.tag.json) # <<>> THEN JSONName(field.tag.json)
    ELSE CASE parser.PropNamingStrategy = SnakeCase  -> toSnakeCase(goName)
           [] parser.PropNamingStrategy = PascalCase -> goName
           [] OTHER                                  -> toLowerCamelCase(goName)

\* the declared names of a struct that are exported and not ignored, each as
\* the pair of its field and its place in the declaration
C24_Declared(t) ==
    {p \in (DOMAIN TypeSpecDef(t).Type.fields) \X (1..2) :
        /\ p[2] \in DOMAIN TypeSpecDef(t).Type.fields[p[1]].names
        /\ IsExported(TypeSpecDef(t).Type.fields[p[1]].names[p[2]])
        /\ ~C24_Ignored(TypeSpecDef(t).Type.fields[p[1]])}

\* the property keys of a struct of named fields
C24_Keys(t) ==
    {C24_Key(TypeSpecDef(t).Type.fields[p[1]], TypeSpecDef(t).Type.fields[p[1]].names[p[2]]) :
        p \in C24_Declared(t)}

(***************************************************************************)
(* C24: the properties of a struct schema are exactly the exported, not    *)
(* ignored field names declared in it, every name of a declaration with    *)
(* several names included, keyed by the json name if one is given and else *)
(* by the naming strategy.                                                 *)
(***************************************************************************)
C24_FieldNames ==
    \A k \in DOMAIN parser.Definitions :
        parser.Definitions[k].of \in {"Pair", "Solo"} =>
            DOMAIN parser.Definitions[k].s.props = C24_Keys(parser.Definitions[k].of)

\* the names of a struct's own fields that are tagged required
C25_Own(t) ==
    {C24_Key(TypeSpecDef(t).Type.fields[i], TypeSpecDef(t).Type.fields[i].names[1]) :
        i \in {j \in DOMAIN TypeSpecDef(t).Type.fields :
                 /\ TypeSpecDef(t).Type.fields[j].names # <<>>
                 /\ TypeSpecDef(t).Type.fields[j].hasTag
                 /\ \/ "required" \in Range(TypeSpecDef(t).Type.fields[j].tag.binding)
                    \/ "required" \in Range(TypeSpecDef(t).Type.fields[j].tag.validate)}}

\* the required names of the structs it embeds (which embed none themselves)
C25_Inherited(t) ==
    UNION {C25_Own(TypeSpecDef(t).Type.fields[i].type.name[1]) :
              i \in {j \in DOMAIN TypeSpecDef(t).Type.fields :
                       TypeSpecDef(t).Type.fields[j].names = <<>>}}

(***************************************************************************)
(* C25: the required list of a struct schema holds, each exactly once and  *)
(* in sorted order, the names of its own fields tagged required and the    *)
(* required names of its embedded structs, and each of them is a key of    *)
(* the schema's properties.  (Stated for the first file of a run: in a     *)
(* later file a type left on structStack resolves to an empty object.)     *)
(***************************************************************************)
C25_Required ==
    \A k \in DOMAIN parser.Definitions :
        (nfiles = 1 /\ parser.Definitions[k].of \in {"Base", "Derived", "Shadow"}) =>
            /\ Range(parser.Definitions[k].s.required)
                   = C25_Own(parser.Definitions[k].of) \cup C25_Inherited(parser.Definitions[k].of)
            /\ \A i, j \in DOMAIN parser.Definitions[k].s.required :
                   i < j => LessString(parser.Definitions[k].s.required[i],
                                       parser.Definitions[k].s.required[j])
            /\ Range(parser.Definitions[k].s.required) \subseteq DOMAIN parser.Definitions[k].s.props

(***************************************************************************)
(* parseGeneralAPIInfo over the security definitions of a general comment  *)
(* block.  A comment line is the sequence of its words, the attribute      *)
(* first; the blocks are written with the attributes listed here.          *)
(***************************************************************************)
MaxLines == 3

SecurityAttrs ==
    {"@securitydefinitions.basic", "@securitydefinitions.apikey",
     "@securitydefinitions.oauth2.application", "@securitydefinitions.oauth2.implicit",
     "@securitydefinitions.oauth2.password", "@securitydefinitions.oauth2.accesscode"}

\* strings.ToLower on the attributes the blocks use
AttrToLower(attribute) ==
    CASE attribute = "@In" -> "@in"
      [] OTHER -> attribute

\* the text after the attribute, trimmed
AttrValue(line) == IF Len(line) >= 2 THEN line[2] ELSE ""

\* isExistsScope: an attribute with "@scope." is a scope, and an error when
\* it also holds a comma
ScopeNames == ("@scope.write" :> "write") @@ ("@scope.r,w" :> "r,w")

isExistsScope(scope) ==
    [ok  |-> scope \in DOMAIN ScopeNames,
     err |-> IF scope = "@scope.r,w" THEN "@scope can't use comma(,) get=" \o scope ELSE ""]

\* the end of parseSecAttr without the test of the required attributes
parseSecAttr_NoCheck(context, search, attrMap, scopes) ==
    [attrMap |-> attrMap, scopes |-> scopes, err |-> ""]

\* the end of parseSecAttr: every required attribute must have been found
parseSecAttrDone(context, search, attrMap, scopes) ==
    IF Cardinality(DOMAIN attrMap) # Cardinality(search)
    THEN [attrMap |-> NoMap, scopes |-> NoMap, err |-> context \o " is required"]
    ELSE [attrMap |-> attrMap, scopes |-> scopes, err |-> ""]

\* parseSecAttr from line i on: the loop ends after the next
\* @securitydefinitions line
RECURSIVE parseSecAttrFrom(_, _, _, _, _, _)
parseSecAttrFrom(context, search, lines, i, attrMap, scopes) ==
    IF i > Len(lines) THEN parseSecAttrDone(context, search, attrMap, scopes)
    ELSE LET securityAttr == AttrToLower(lines[i][1])
             found  == IF securityAttr \in search
                       THEN Put(attrMap, securityAttr, AttrValue(lines[i])) ELSE attrMap
             scoped == IF isExistsScope(securityAttr).ok
                       THEN Put(scopes, ScopeNames[securityAttr], " " \o AttrValue(lines[i]))
                       ELSE scopes
         IN  IF isExistsScope(securityAttr).err # ""
             THEN [attrMap |-> NoMap, scopes |-> NoMap, err |-> isExistsScope(securityAttr).err]
             ELSE IF securityAttr \in SecurityAttrs
             THEN parseSecAttrDone(context, search, found, scoped)
             ELSE parseSecAttrFrom(context, search, lines, i + 1, found, scoped)

parseSecAttr(context, search, lines) == parseSecAttrFrom(context, search, lines, 1, NoMap, NoMap)

\* the attributes a security definition requires
SecSearch(attribute) ==
    CASE attribute = "@securitydefinitions.apikey" -> {"@in", "@name"}
      [] attribute = "@securitydefinitions.oauth2.application" -> {"@tokenurl"}
      [] attribute = "@securitydefinitions.oauth2.implicit" -> {"@authorizationurl"}
      [] attribute = "@securitydefinitions.oauth2.password" -> {"@tokenurl"}
      [] attribute = "@securitydefinitions.oauth2.accesscode" -> {"@tokenurl", "@authorizationurl"}
      [] OTHER -> {}

\* attrMap[key]: the empty text for a key the map does not hold
AttrOf(attrMap, key) == IF key \in DOMAIN attrMap THEN attrMap[key] ELSE ""

\* the security scheme of a definition whose attributes were found
SecurityScheme(attribute, a) ==
    CASE attribute = "@securitydefinitions.apikey" ->
            [type |-> "apiKey", name |-> AttrOf(a.attrMap, "@name"), in |-> AttrOf(a.attrMap, "@in")]
      [] attribute = "@securitydefinitions.oauth2.application" ->
            [type |-> "oauth2", flow |-> "application", tokenUrl |-> AttrOf(a.attrMap, "@tokenurl"),
             scopes |-> a.scopes]
      [] attribute = "@securitydefinitions.oauth2.implicit" ->
            [type |-> "oauth2", flow |-> "implicit",
             authorizationUrl |-> AttrOf(a.attrMap, "@authorizationurl"), scopes |-> a.scopes]
      [] attribute = "@securitydefinitions.oauth2.password" ->
            [type |-> "oauth2", flow |-> "password", tokenUrl |-> AttrOf(a.attrMap, "@tokenurl"),
             scopes |-> a.scopes]
      [] attribute = "@securitydefinitions.oauth2.accesscode" ->
            [type |-> "oauth2", flow |-> "accessCode", tokenUrl |-> AttrOf(a.attrMap, "@tokenurl"),
             authorizationUrl |-> AttrOf(a.attrMap, "@authorizationurl"), scopes |-> a.scopes]

RECURSIVE parseGeneralAPIInfoFrom(_, _, _)

\* a security definition whose attributes parseSecAttr has answered with a
parseGeneralAPIInfoSec(P, comments, i, a) ==
    IF a.err # "" THEN [P |-> P, err |-> a.err]
    ELSE parseGeneralAPIInfoFrom(
             [P EXCEPT !.SecurityDefinitions =
                 Put(@, AttrValue(comments[i]), SecurityScheme(AttrToLower(comments[i][1]), a))],
             comments, i + 1)

\* parseGeneralAPIInfo from line i on
parseGeneralAPIInfoFrom(P, comments, i) ==
    IF i > Len(comments) THEN [P |-> P, err |-> ""]
    ELSE IF AttrToLower(comments[i][1]) = "@securitydefinitions.basic"
    THEN parseGeneralAPIInfoFrom(
             [P EXCEPT !.SecurityDefinitions = Put(@, AttrValue(comments[i]), [type |-> "basic"])],
             comments, i + 1)
    ELSE IF AttrToLower(comments[i][1]) \in SecurityAttrs
    THEN parseGeneralAPIInfoSec(
             P, comments, i,
             parseSecAttr(comments[i][1], SecSearch(AttrToLower(comments[i][1])),
                          SubSeq(comments, i + 1, Len(comments))))
    ELSE parseGeneralAPIInfoFrom(P, comments, i + 1)

parseGeneralAPIInfo(P, comments) == parseGeneralAPIInfoFrom(P, comments, 1)

\* the lines of the analysed general comment blocks
SecurityLines ==
    {<<a, n>> : a \in SecurityAttrs \ {"@securitydefinitions.oauth2.password",
                                        "@securitydefinitions.oauth2.implicit"},
                n \in {"A"}}
    \cup {<<"@securitydefinitions.oauth2.password", "B">>,
          <<"@securitydefinitions.oauth2.implicit", "B">>,
          <<"@in", "header">>, <<"@In", "header">>, <<"@name", "token">>,
          <<"@tokenurl", "u">>, <<"@authorizationurl", "v">>,
          <<"@scope.write", "w">>, <<"@scope.r,w", "w">>}

RECURSIVE CommentBlocks(_)
CommentBlocks(n) ==
    IF n = 0 THEN {<<>>}
    ELSE CommentBlocks(n - 1)
             \cup {Append(b, l) : b \in {c \in CommentBlocks(n - 1) : Len(c) = n - 1},
                                  l \in SecurityLines}

ParseGeneralAPIInfoDone(comments, r) ==
    /\ parser' = r.P
    /\ err' = IF r.err = "" THEN <<>> ELSE <<r.err>>
    /\ pc' = IF r.err = "" THEN "idle" ELSE "failed"
    /\ schemas' = Append(schemas, [k |-> "general", of |-> comments])
    /\ UNCHANGED <<nfiles, ndecls, debug>>

\* ParseGeneralAPIInfo over the one general comment block of the main file
ParseGeneralAPIInfo(comments) ==
    /\ pc = "idle"
    /\ schemas = <<>>
    /\ ParseGeneralAPIInfoDone(comments, parseGeneralAPIInfo(parser, comments))

NextSecurity == \E comments \in CommentBlocks(MaxLines) : ParseGeneralAPIInfo(comments)

SpecSecurity == Init /\ [][NextSecurity]_vars

\* the line after the last one that belongs to the definition of line i
C26_End(comments, i) ==
    IF \E k \in (i + 1)..Len(comments) : AttrToLower(comments[k][1]) \in SecurityAttrs
    THEN CHOOSE k \in (i + 1)..Len(comments) :
             /\ AttrToLower(comments[k][1]) \in SecurityAttrs
             /\ \A j \in (i + 1)..(k - 1) : AttrToLower(comments[j][1]) \notin SecurityAttrs
    ELSE Len(comments) + 1

\* line i is a security definition with a required attribute missing
C26_Incomplete(comments, i) ==
    /\ SecSearch(AttrToLower(comments[i][1])) # {}
    /\ \E attr \in SecSearch(AttrToLower(comments[i][1])) :
           \A k \in (i + 1)..(C26_End(comments, i) - 1) : AttrToLower(comments[k][1]) # attr

(***************************************************************************)
(* C26: a security definition (apikey, oauth2.application, implicit,       *)
(* password, accesscode) whose required attributes are not all among the   *)
(* lines that follow it, up to the next @securitydefinitions line, makes   *)
(* parseGeneralAPIInfo return an error, and securityDefinitions gets no    *)
(* entry from it: an entry of its name comes from an earlier line.         *)
(***************************************************************************)
C26_SecurityAttrs ==
    \A c \in DOMAIN schemas :
        \A i \in DOMAIN schemas[c].of :
            C26_Incomplete(schemas[c].of, i) =>
                /\ err # <<>>
                /\ AttrValue(schemas[c].of[i]) \in DOMAIN parser.SecurityDefinitions =>
                       \E j \in 1..(i - 1) :
                           /\ AttrToLower(schemas[c].of[j][1]) \in SecurityAttrs
                           /\ AttrValue(schemas[c].of[j]) = AttrValue(schemas[c].of[i])

\* an apikey definition followed by its @in line only has been refused
C26_Witness ==
    /\ schemas # <<>>
    /\ schemas[1].of = << <<"@securitydefinitions.apikey", "A">>, <<"@in", "header">> >>
    /\ err # <<>>
    /\ parser.SecurityDefinitions = NoMap

(***************************************************************************)
(* Primitive names: declarations whose comments name Go primitives and the *)
(* special names, next to declarations that name structs of the packages.  *)
(***************************************************************************)
PrimitiveNames ==
    {<<"int">>, <<"uint8">>, <<"float64">>, <<"bool">>, <<"string">>,
     <<"Time">>, <<"time", ".", "Time">>, <<"ObjectID">>, <<"primitive", ".", "ObjectID">>,
     <<"UUID">>, <<"uuid", ".", "UUID">>, <<"Decimal">>, <<"decimal", ".", "Decimal">>}

PrimitiveOps == {[ID |-> "", routes |-> <<>>, types |-> <<n>>] : n \in PrimitiveNames}

NextPrimitives ==
    \/ GinSwaggerBegin
    \/ \E op \in PrimitiveOps \cup {o \in TypeOps : o.types[1] \in {<<"c", ".", "Node">>,
                                                                  <<"b", ".", "Item">>}} :
           ParseDecl(op)
    \/ GinSwaggerEnd

SpecPrimitives == Init /\ [][NextPrimitives]_vars

\* the schema type a primitive or special name stands for
C27_Type(typeName) ==
    LET name == typeName[Len(typeName)]
    IN  CASE name \in {"int", "uint8"} -> "integer"
          [] name = "float64" -> "number"
          [] name = "bool" -> "boolean"
          [] name \in {"string", "Time", "ObjectID", "UUID"} -> "string"
          [] name = "Decimal" -> "number"

\* the registries of the parser
C27_Registries(P) ==
    <<P.parsedSchemas, P.outputSchemas, P.existSchemaNames, P.Definitions,
      P.toBeRenamedSchemas, P.toBeRenamedRefURLs, P.issuedFor, P.structStack, P.heap>>

(***************************************************************************)
(* C27: resolving a Go primitive or a special name (Time, ObjectID, UUID,  *)
(* Decimal, with or without package qualifier) succeeds with a fresh       *)
(* schema of the primitive type, a string for the first three and a number *)
(* for Decimal, and leaves parsedSchemas, outputSchemas, existSchemaNames, *)
(* the definitions, the recorded reference URLs and structStack as they    *)
(* were.                                                                   *)
(***************************************************************************)
C27_Primitive ==
    [][\A op \in PrimitiveOps :
           ParseDecl(op) =>
               /\ err' = <<>>
               /\ C27_Registries(parser') = C27_Registries(parser)
               /\ parser'.nodes =
                      Append(parser.nodes, PrimitiveSchemaVal(C27_Type(op.types[1])))
               /\ schemas' = Append(schemas, [k |-> "type", of |-> "",
                                              s |-> Len(parser.nodes) + 1])]_vars

\* a name has been resolved to a fresh string schema while structs were registered
C27_Witness ==
    /\ parser.parsedSchemas # NoMap
    /\ parser.Definitions # NoMap
    /\ \E i \in DOMAIN schemas :
           /\ schemas[i].k = "type"
           /\ schemas[i].of = ""
           /\ parser.nodes[schemas[i].s] = PrimitiveSchemaVal("string")

\* the path item of the route holds, in the slot of its method, the operation
\* of declaration decl
C28_Held(paths, route, decl) ==
    /\ route.Path \in DOMAIN paths
    /\ \E slot \in Slots :
           /\ slot = ToUpper(route.HTTPMethod)
           /\ paths[route.Path][slot] # NoOp
           /\ paths[route.Path][slot].decl = decl

(***************************************************************************)
(* C28: when GinSwagger goes on without error, every route a parsed        *)
(* declaration declares has, under its path, an operation in the slot of   *)
(* its method, whatever the method string is; and when GinSwagger returns  *)
(* without error no path entry is left without an operation.               *)
(***************************************************************************)
C28_DeclaredRoutes ==
    [][/\ \A op \in RouteOps :
              (ParseDecl(op) /\ err' = <<>>) =>
                  C28_Held(parser'.Paths, op.routes[1], ndecls + 1)
       /\ (GinSwaggerEnd /\ err' = <<>>) =>
              \A p \in DOMAIN parser'.Paths :
                  \E slot \in Slots : parser'.Paths[p][slot] # NoOp]_vars

(***************************************************************************)
(* Binding calls: handlers whose body is one call of ShouldBindJSON or     *)
(* ShouldBindQuery with its single argument, of a type whose name has a    *)
(* path separator or has none.                                             *)
(***************************************************************************)
BindArgs ==
    {[Name |-> "&node", Type |-> t, Value |-> ""] :
        t \in {<<"*c.Node">>, <<"*github.com", "x", "c.Node">>}}

BindDescs ==
    {[Name |-> "H", PackageName |-> "api.H", Comments |-> c, Exprs |-> <<Call(n, <<a>>)>>] :
        c \in {<<>>, <<RouterCOf>>}, n \in {"ShouldBindJSON", "ShouldBindQuery"}, a \in BindArgs}

NextBind ==
    \/ GinSwaggerBegin
    \/ \E funcDesc \in BindDescs : \E order \in Orders(DOMAIN RouteOfA) :
           ParseFuncDecl(funcDesc, RouteOfA, order)
    \/ GinSwaggerEnd

SpecBind == Init /\ [][NextBind]_vars

\* the parameter line of a binding call with the single argument arg
C30_Line(callExpr) ==
    <<"//", "@Param", callExpr.Args[1].Name,
      IF callExpr.Name = "ShouldBindJSON" THEN "body" ELSE "query",
      callExpr.Args[1].Type[Len(callExpr.Args[1].Type)],
      IF callExpr.Name = "ShouldBindJSON" THEN "true" ELSE "false",
      Quote(callExpr.Args[1].Name)>>

(***************************************************************************)
(* C30: generateComments reads only the argument positions the recorded    *)
(* call has: a ShouldBindJSON or ShouldBindQuery call with its single      *)
(* argument, of any type, a type name without path separator included,     *)
(* completes without a fault and yields one body (query) parameter line    *)
(* typed by that argument.                                                 *)
(***************************************************************************)
C30_SingleArgument ==
    [][\A funcDesc \in BindDescs : \A order \in Orders(DOMAIN RouteOfA) :
           ParseFuncDecl(funcDesc, RouteOfA, order) =>
               /\ err' # <<"panic: runtime error: index out of range">>
               /\ Len(schemas') > Len(schemas)
               /\ schemas'[Len(schemas) + 1].k = "comments"
               /\ {l \in Range(schemas'[Len(schemas) + 1].s) : l[2] = "@Param"}
                      = {C30_Line(funcDesc.Exprs[1])}]_vars

====
